---- MODULE Spec2Model ----
(***************************************************************************)
(* A model of the extraction engine of isa-backend (teachers/utils.py):    *)
(* the cell coercers, the grid scanner extract_worksheet_data and the      *)
(* worksheet validator find_valid_teacher_worksheets.                      *)
(*                                                                         *)
(* Text is kept in the state as TLA+ strings and is taken apart character  *)
(* by character (Chars) wherever the code parses it, so that parsing,      *)
(* trimming and case folding are computed and not assumed.                 *)
(***************************************************************************)
EXTENDS Integers, Sequences, FiniteSets, TLC

(***************************************************************************)
(* Characters and Python's str methods                                     *)
(***************************************************************************)

\* A string as the sequence of its characters (one-character strings).
Chars(t) == [i \in 1..Len(t) |-> SubSeq(t, i, i)]

RECURSIVE Str(_)
\* The string made of a sequence of characters.
Str(cs) == IF cs = <<>> THEN "" ELSE Head(cs) \o Str(Tail(cs))

\* The accented letters of Spanish names.  Strings of the model hold 7-bit
\* characters only, so each accented letter is written as a character that no
\* other text of the model uses; the tables below give them the case mapping,
\* the word class and the non-ASCII class the letters have.
a_acute == "{"
e_acute == "}"
i_acute == "|"
o_acute == "~"
u_acute == "^"
n_tilde == ";"
A_ACUTE == "["
E_ACUTE == "]"
I_ACUTE == "!"
O_ACUTE == "?"
U_ACUTE == "<"
N_TILDE == ">"
\* "Mar(i')a L(o')pez" and its lower-case form.
MariaLopezAccented == "Mar" \o i_acute \o "a L" \o o_acute \o "pez"
maria_lopez_accented == "mar" \o i_acute \o "a l" \o o_acute \o "pez"

DigitChars == <<"0", "1", "2", "3", "4", "5", "6", "7", "8", "9">>
LowerChars == <<"a", "b", "c", "d", "e", "f", "g", "h", "i", "j", "k", "l", "m",
                "n", "o", "p", "q", "r", "s", "t", "u", "v", "w", "x", "y", "z",
                a_acute, e_acute, i_acute, o_acute, u_acute, n_tilde>>
UpperChars == <<"A", "B", "C", "D", "E", "F", "G", "H", "I", "J", "K", "L", "M",
                "N", "O", "P", "Q", "R", "S", "T", "U", "V", "W", "X", "Y", "Z",
                A_ACUTE, E_ACUTE, I_ACUTE, O_ACUTE, U_ACUTE, N_TILDE>>
\* The characters str.strip() removes.
WhiteSpace == {" ", "\t", "\n"}

Range(f) == {f[i] : i \in DOMAIN f}
DigitSet == Range(DigitChars)
LowerSet == Range(LowerChars)
UpperSet == Range(UpperChars)
IsDigit(c) == c \in DigitSet
DigitVal(c) == (CHOOSE i \in DOMAIN DigitChars : DigitChars[i] = c) - 1
AllDigits(cs) == \A i \in DOMAIN cs : IsDigit(cs[i])

RECURSIVE IntOf(_)
\* int() of a run of decimal digits.
IntOf(cs) ==
  IF cs = <<>> THEN 0
  ELSE 10 * IntOf(SubSeq(cs, 1, Len(cs) - 1)) + DigitVal(cs[Len(cs)])

UpperChar(c) ==
  IF c \in LowerSet
  THEN UpperChars[CHOOSE i \in DOMAIN LowerChars : LowerChars[i] = c]
  ELSE c
LowerChar(c) ==
  IF c \in UpperSet
  THEN LowerChars[CHOOSE i \in DOMAIN UpperChars : UpperChars[i] = c]
  ELSE c
\* str.upper() and str.lower()
Upper(cs) == [i \in DOMAIN cs |-> UpperChar(cs[i])]
Lower(cs) == [i \in DOMAIN cs |-> LowerChar(cs[i])]

\* str.lstrip(set), str.rstrip(set), str.strip()
LStripSet(cs, set) ==
  LET keep == {i \in DOMAIN cs : cs[i] \notin set}
  IN IF keep = {} THEN <<>>
     ELSE SubSeq(cs, CHOOSE i \in keep : \A j \in keep : i <= j, Len(cs))
RStripSet(cs, set) ==
  LET keep == {i \in DOMAIN cs : cs[i] \notin set}
  IN IF keep = {} THEN <<>>
     ELSE SubSeq(cs, 1, CHOOSE i \in keep : \A j \in keep : i >= j)
Strip(cs) == RStripSet(LStripSet(cs, WhiteSpace), WhiteSpace)

\* str.replace(old, new) for single characters
ReplaceChar(cs, old, new) == [i \in DOMAIN cs |-> IF cs[i] = old THEN new ELSE cs[i]]

\* True when the characters of pat stand in cs from position i on.
MatchAt(cs, i, pat) ==
  /\ i >= 1
  /\ i + Len(pat) - 1 <= Len(cs)
  /\ SubSeq(cs, i, i + Len(pat) - 1) = pat

\* The positions of character c in cs, and cs split at them (str.split(c)).
Positions(cs, c) == {i \in DOMAIN cs : cs[i] = c}
RECURSIVE SplitOn(_, _)
SplitOn(cs, c) ==
  LET ps == Positions(cs, c)
  IN IF ps = {} THEN <<cs>>
     ELSE LET p == CHOOSE i \in ps : \A j \in ps : i <= j
          IN <<SubSeq(cs, 1, p - 1)>> \o SplitOn(SubSeq(cs, p + 1, Len(cs)), c)

(***************************************************************************)
(* Values: a cell or an argument is a tagged value, as Python's are.       *)
(***************************************************************************)
StrV(s) == [tag |-> "str", s |-> s]
\* An int n * 10^e10: Python's ints are unbounded, and BigIntV writes the large ones
\* with one nonzero digit n.
IntV(n) == [tag |-> "int", n |-> n, e10 |-> 0]
BigIntV(n, e10) == [tag |-> "int", n |-> n, e10 |-> e10]
\* An exception that leaves the function in place of a value.
RaisedV(exc) == [tag |-> "raised", exc |-> exc]
NoneV == [tag |-> "none"]
\* A finite float m / 10^e in lowest terms of e (90.0 is m = 90, e = 0).
FloatV(m, e) == [tag |-> "float", kind |-> "finite", m |-> m, e |-> e]
\* float('inf'), float('-inf'), float('nan')
SpecialFloatV(kind) == [tag |-> "float", kind |-> kind, m |-> 0, e |-> 0]
DateV(y, m, d) == [tag |-> "date", y |-> y, m |-> m, d |-> d]

RECURSIVE Pow10(_)
Pow10(n) == IF n <= 0 THEN 1 ELSE 10 * Pow10(n - 1)

RECURSIVE NormFloat(_, _)
\* m / 10^e with the trailing zeros of the fraction dropped.
NormFloat(m, e) ==
  IF e > 0 /\ m % 10 = 0 THEN NormFloat(m \div 10, e - 1)
  ELSE IF e < 0 THEN FloatV(m * Pow10(-e), 0)
  ELSE FloatV(m, e)

(***************************************************************************)
(* ValueCoercers: parse_percentage and parse_date                          *)
(***************************************************************************)

\* A digit part of a float literal: digits, single underscores between them.
IsDigitPart(cs) ==
  /\ cs # <<>>
  /\ \A i \in DOMAIN cs : IsDigit(cs[i]) \/ cs[i] = "_"
  /\ IsDigit(cs[1]) /\ IsDigit(cs[Len(cs)])
  /\ \A i \in 1..(Len(cs) - 1) : ~(cs[i] = "_" /\ cs[i + 1] = "_")
DigitsOf(cs) == SelectSeq(cs, IsDigit)

HasSign(cs) == cs # <<>> /\ cs[1] \in {"+", "-"}
Unsigned(cs) == IF HasSign(cs) THEN Tail(cs) ELSE cs
SignOf(cs) == IF cs # <<>> /\ cs[1] = "-" THEN -1 ELSE 1

\* The mantissa and exponent texts of an unsigned float literal.
ExpPositions(cs) == {i \in DOMAIN cs : cs[i] \in {"e", "E"}}
MantissaText(cs) ==
  IF ExpPositions(cs) = {} THEN cs
  ELSE SubSeq(cs, 1, (CHOOSE i \in ExpPositions(cs) : TRUE) - 1)
ExponentText(cs) ==
  SubSeq(cs, (CHOOSE i \in ExpPositions(cs) : TRUE) + 1, Len(cs))
IntText(mant) == SplitOn(mant, ".")[1]
FracText(mant) == IF Len(SplitOn(mant, ".")) = 2 THEN SplitOn(mant, ".")[2] ELSE <<>>

IsMantissa(mant) ==
  /\ Len(SplitOn(mant, ".")) <= 2
  /\ IntText(mant) = <<>> \/ IsDigitPart(IntText(mant))
  /\ FracText(mant) = <<>> \/ IsDigitPart(FracText(mant))
  /\ IntText(mant) # <<>> \/ FracText(mant) # <<>>
IsExponent(ex) == IsDigitPart(Unsigned(ex))

\* The decimal literals float() accepts, sign removed.
IsDecimalLiteral(cs) ==
  /\ Cardinality(ExpPositions(cs)) <= 1
  /\ IsMantissa(MantissaText(cs))
  /\ ExpPositions(cs) # {} => IsExponent(ExponentText(cs))

DecimalValue(sign, cs) ==
  LET mant == MantissaText(cs)
      whole == IntOf(DigitsOf(IntText(mant)) \o DigitsOf(FracText(mant)))
      ex == IF ExpPositions(cs) = {} THEN 0
            ELSE SignOf(ExponentText(cs)) * IntOf(DigitsOf(Unsigned(ExponentText(cs))))
  IN NormFloat(sign * whole, Len(DigitsOf(FracText(mant))) - ex)

\* float(text): the float, or NoneV where Python raises ValueError.
PyFloat(text) ==
  LET cs == Strip(text)
      body == Unsigned(cs)
      word == Str(Lower(body))
  IN IF word \in {"inf", "infinity"}
     THEN SpecialFloatV(IF SignOf(cs) = -1 THEN "-inf" ELSE "inf")
     ELSE IF word = "nan" THEN SpecialFloatV("nan")
     ELSE IF IsDecimalLiteral(body) THEN DecimalValue(SignOf(cs), body)
     ELSE NoneV

\* The largest finite double is 1.797...e308.
MaxFloatExp10 == 308

\* float(value) of an int: the nearest double, OverflowError for an int beyond the
\* largest one.
FloatOfInt(value) ==
  IF value.e10 = 0 THEN FloatV(value.n, 0)
  ELSE IF value.e10 > MaxFloatExp10 \/ (value.e10 = MaxFloatExp10 /\ value.n \notin {-1, 1})
       THEN RaisedV("OverflowError")
       ELSE FloatV(value.n, -value.e10)

\* parse_percentage(value): a float value, or NoneV for None; line 189 is outside
\* the try, so what float() raises there leaves the function.
parse_percentage(value) ==
  IF value.tag = "int" THEN FloatOfInt(value)
  ELSE IF value.tag = "float" THEN value
  ELSE IF value.tag # "str" THEN NoneV
  ELSE LET cleaned_value ==
             Strip(RStripSet(Strip(ReplaceChar(Chars(value.s), ",", ".")), {"%"}))
       IN IF cleaned_value # <<>> THEN PyFloat(cleaned_value) ELSE NoneV

\* The fields of strptime's '%d/%m/%y': what each directive's pattern accepts.
IsDayText(cs) ==
  \/ Len(cs) = 2 /\ AllDigits(cs) /\ IntOf(cs) \in 1..31
  \/ Len(cs) = 1 /\ AllDigits(cs) /\ IntOf(cs) \in 1..9
IsMonthText(cs) ==
  \/ Len(cs) = 2 /\ AllDigits(cs) /\ IntOf(cs) \in 1..12
  \/ Len(cs) = 1 /\ AllDigits(cs) /\ IntOf(cs) \in 1..9
IsYearText(cs) == Len(cs) = 2 /\ AllDigits(cs)

\* %y: 00..68 are 2000..2068, 69..99 are 1969..1999.
CenturyPivot == 68
FullYear(yy) == IF yy <= CenturyPivot THEN 2000 + yy ELSE 1900 + yy
IsLeap(y) == y % 4 = 0 /\ (y % 100 # 0 \/ y % 400 = 0)
DaysInMonth(y, m) ==
  IF m = 2 THEN (IF IsLeap(y) THEN 29 ELSE 28)
  ELSE IF m \in {4, 6, 9, 11} THEN 30 ELSE 31

\* StrpDate reading the text month first, as '%m/%d/%y' would.
StrpDateMonthFirst(cs) ==
  LET parts == SplitOn(cs, "/")
  IN IF /\ Len(parts) = 3
        /\ IsMonthText(parts[1]) /\ IsDayText(parts[2]) /\ IsYearText(parts[3])
     THEN LET y == FullYear(IntOf(parts[3]))
              m == IntOf(parts[1])
              d == IntOf(parts[2])
          IN IF d <= DaysInMonth(y, m) THEN DateV(y, m, d) ELSE NoneV
     ELSE NoneV

\* datetime.strptime(text, '%d/%m/%y').date(), or NoneV where it raises ValueError.
StrpDate(cs) ==
  LET parts == SplitOn(cs, "/")
  IN IF /\ Len(parts) = 3
        /\ IsDayText(parts[1]) /\ IsMonthText(parts[2]) /\ IsYearText(parts[3])
     THEN LET y == FullYear(IntOf(parts[3]))
              m == IntOf(parts[2])
              d == IntOf(parts[1])
          IN IF d <= DaysInMonth(y, m) THEN DateV(y, m, d) ELSE NoneV
     ELSE NoneV

\* parse_date(value): a date value, or NoneV for None.
parse_date(value) ==
  IF value.tag = "date" THEN value
  ELSE IF value.tag # "str" THEN NoneV
  ELSE LET cleaned_value == Strip(Chars(value.s))
       IN IF cleaned_value = <<>> THEN NoneV ELSE StrpDate(cleaned_value)

(***************************************************************************)
(* NameNormalizer and SheetKeyResolver                                     *)
(***************************************************************************)

\* \w of Python's re on str: letters, digits and the underscore.
IsWordChar(c) == c \in LowerSet \/ c \in UpperSet \/ c \in DigitSet \/ c = "_"

\* \b at position i of cs (between cs[i-1] and cs[i]).
WordBoundary(cs, i) ==
  LET before == i > 1 /\ i - 1 <= Len(cs) /\ IsWordChar(cs[i - 1])
      after == i >= 1 /\ i <= Len(cs) /\ IsWordChar(cs[i])
  IN before # after

\* titles_to_remove: the alternatives of the two patterns; the first pattern also
\* takes one full stop after the title (\.?).
ShortTitles == <<"lic", "dr", "ing", "arq", "ms", "msc", "sr", "sra", "srta">>
LongTitles == <<"licenciado", "doctor", "ingeniero", "maestro">>

\* The alternatives of a pattern \b(t1|t2|...)\b that match at position i of cs, as
\* indexes into titles; the regex takes the first of them.
TitleMatches(cs, i, titles) ==
  {k \in DOMAIN titles :
     /\ WordBoundary(cs, i)
     /\ MatchAt(Lower(cs), i, Chars(titles[k]))
     /\ WordBoundary(cs, i + Len(titles[k]))}

RECURSIVE RemoveTitles(_, _, _, _)
\* re.sub(pattern, '', cs, flags=re.IGNORECASE) from position i on: the matches are
\* found left to right, without overlap, and dropped.
RemoveTitles(cs, i, titles, dot) ==
  IF i > Len(cs) THEN <<>>
  ELSE LET ms == TitleMatches(cs, i, titles)
       IN IF ms = {}
          THEN <<cs[i]>> \o RemoveTitles(cs, i + 1, titles, dot)
          ELSE LET k == CHOOSE m \in ms : \A n \in ms : m <= n
                   end == i + Len(titles[k])
                   next == IF dot /\ end <= Len(cs) /\ cs[end] = "." THEN end + 1 ELSE end
               IN RemoveTitles(cs, next, titles, dot)

\* CollapseSpace leaving the runs of whitespace as they are.
CollapseSpaceKeepsRuns(cs) == cs

RECURSIVE CollapseSpace(_)
\* re.sub(r'\s+', ' ', cs): every run of whitespace becomes one space.
CollapseSpace(cs) ==
  IF cs = <<>> THEN <<>>
  ELSE IF Head(cs) \in WhiteSpace
       THEN <<" ">> \o CollapseSpace(LStripSet(cs, WhiteSpace))
       ELSE <<Head(cs)>> \o CollapseSpace(Tail(cs))

\* preprocess_name(name): the cleaned name, "" for a value that is no string.
preprocess_name(name) ==
  IF name.tag # "str" THEN ""
  ELSE LET lowered == Lower(Chars(name.s))
           short == Strip(RemoveTitles(lowered, 1, ShortTitles, TRUE))
           long == Strip(RemoveTitles(short, 1, LongTitles, FALSE))
       IN Str(Strip(CollapseSpace(long)))

\* [a-zA-Z0-9-_]
IsKeyChar(c) ==
  \/ c \in DigitSet \/ c \in {"-", "_"}
  \/ \E k \in 1..26 : c = LowerChars[k] \/ c = UpperChars[k]

KeyPrefix == Chars("/spreadsheets/d/")

\* extract_sheet_key_from_url(url): group(1) of the leftmost match of
\* /spreadsheets/d/([a-zA-Z0-9-_]+), or "" for None.
extract_sheet_key_from_url(url) ==
  LET cs == Chars(url)
      starts == {i \in DOMAIN cs :
                   /\ MatchAt(cs, i, KeyPrefix)
                   /\ i + Len(KeyPrefix) <= Len(cs)
                   /\ IsKeyChar(cs[i + Len(KeyPrefix)])}
  IN IF starts = {} THEN ""
     ELSE LET first == (CHOOSE i \in starts : \A j \in starts : i <= j) + Len(KeyPrefix)
              ends == {j \in first..Len(cs) : \A k \in first..j : IsKeyChar(cs[k])}
              last == CHOOSE j \in ends : \A k \in ends : j >= k
          IN Str(SubSeq(cs, first, last))

(***************************************************************************)
(* The similarity score: fuzz.token_set_ratio of thefuzz, with the ratio   *)
(* 2 * LCS / (len1 + len2) of its edit-distance backend.                   *)
(***************************************************************************)

Max(a, b) == IF a >= b THEN a ELSE b

RECURSIVE LcsRow(_, _, _, _)
\* One row of the longest-common-subsequence table: acc is the row so far (columns
\* 0..Len(acc)-1), prev the row above, c the character of this row.
LcsRow(prev, c, b, acc) ==
  IF Len(acc) > Len(b) THEN acc
  ELSE LET j == Len(acc)
           cell == IF c = b[j] THEN prev[j] + 1 ELSE Max(prev[j + 1], acc[j])
       IN LcsRow(prev, c, b, Append(acc, cell))

RECURSIVE LcsTable(_, _, _)
LcsTable(a, b, prev) ==
  IF a = <<>> THEN prev ELSE LcsTable(Tail(a), b, LcsRow(prev, Head(a), b, <<0>>))

\* The length of the longest common subsequence of a and b.
Lcs(a, b) == LcsTable(a, b, [j \in 1..(Len(b) + 1) |-> 0])[Len(b) + 1]

\* int(round(x)) for x = num / den, halves to the even neighbour.
RoundDiv(num, den) ==
  LET q == num \div den
      r == num % den
  IN IF 2 * r > den \/ (2 * r = den /\ q % 2 = 1) THEN q + 1 ELSE q

\* fuzz.ratio(a, b) on processed text.
Ratio(a, b) ==
  IF a = b THEN 100
  ELSE IF a = <<>> \/ b = <<>> THEN 0
  ELSE RoundDiv(200 * Lcs(a, b), Len(a) + Len(b))

\* The characters full_process keeps (the others become spaces), in code-point order.
AlnumOrder == DigitChars \o SubSeq(UpperChars, 1, 26) \o <<"_">> \o SubSeq(LowerChars, 1, 26)
AlnumSet == Range(AlnumOrder)
CharRank(c) == CHOOSE k \in DOMAIN AlnumOrder : AlnumOrder[k] = c
IsAscii(c) == c \notin (LowerSet \cup UpperSet) \/ c \in AlnumSet

\* full_process keeping the non-ASCII letters (force_ascii=False).
FullProcessKeepsAccents(cs) ==
  LET spaced == [i \in DOMAIN cs |->
                   IF cs[i] \in AlnumSet \/ ~IsAscii(cs[i]) THEN cs[i] ELSE " "]
  IN Strip(Lower(spaced))

\* utils.full_process(s, force_ascii=True): non-ASCII characters dropped, every
\* character that is no letter, digit or underscore made a space, lowercased,
\* stripped.
full_process(cs) ==
  LET ascii == SelectSeq(cs, IsAscii)
      spaced == [i \in DOMAIN ascii |-> IF ascii[i] \in AlnumSet THEN ascii[i] ELSE " "]
  IN Strip(Lower(spaced))

\* set(p.split())
TokenSet(cs) == {t \in Range(SplitOn(cs, " ")) : t # <<>>}

RECURSIVE TokenLess(_, _)
\* a < b for Python strings.
TokenLess(a, b) ==
  IF b = <<>> THEN FALSE
  ELSE IF a = <<>> THEN TRUE
  ELSE IF Head(a) = Head(b) THEN TokenLess(Tail(a), Tail(b))
  ELSE CharRank(Head(a)) < CharRank(Head(b))

RECURSIVE JoinSorted(_)
\* " ".join(sorted(tokens))
JoinSorted(tokens) ==
  IF tokens = {} THEN <<>>
  ELSE LET least == CHOOSE t \in tokens : \A u \in tokens \ {t} : TokenLess(t, u)
           rest == JoinSorted(tokens \ {least})
       IN IF rest = <<>> THEN least ELSE least \o <<" ">> \o rest

\* fuzz.token_set_ratio(s1, s2): an integer 0..100.
token_set_ratio(s1, s2) ==
  LET p1 == full_process(Chars(s1))
      p2 == full_process(Chars(s2))
      tokens1 == TokenSet(p1)
      tokens2 == TokenSet(p2)
      sorted_sect == JoinSorted(tokens1 \cap tokens2)
      combined_1to2 == Strip(sorted_sect \o <<" ">> \o JoinSorted(tokens1 \ tokens2))
      combined_2to1 == Strip(sorted_sect \o <<" ">> \o JoinSorted(tokens2 \ tokens1))
  IN IF p1 = <<>> \/ p2 = <<>> THEN 0
     ELSE Max(Ratio(sorted_sect, combined_1to2),
              Max(Ratio(sorted_sect, combined_2to1), Ratio(combined_1to2, combined_2to1)))

(***************************************************************************)
(* Exceptions: the classes the code names, and their base classes.         *)
(***************************************************************************)
ExcBase ==
  [ Exception |-> "BaseException",
    ValueError |-> "Exception",
    RuntimeError |-> "Exception",
    ImportError |-> "Exception",
    ModuleNotFoundError |-> "ImportError",
    OSError |-> "Exception",
    FileNotFoundError |-> "OSError",
    AuthenticationError |-> "Exception",
    SpreadsheetNotFound |-> "Exception",
    WorksheetNotFound |-> "Exception",
    HttpError |-> "Exception",
    DoesNotExist |-> "Exception",
    MultipleObjectsReturned |-> "Exception",
    DatabaseError |-> "Exception" ]

RECURSIVE IsInstance(_, _)
\* isinstance(an exception of class cls, base): what an except clause tests.
IsInstance(cls, base) ==
  \/ cls = base
  \/ cls \in DOMAIN ExcBase /\ IsInstance(ExcBase[cls], base)

\* The errors a call into the spreadsheet client can fail with.
ClientErrors ==
  {"AuthenticationError", "SpreadsheetNotFound", "WorksheetNotFound", "HttpError"}

(***************************************************************************)
(* GridExtractor: extract_worksheet_data                                   *)
(***************************************************************************)

\* Bounds of the model: rows of a worksheet window, calls of extract.
MaxRows == 3
MaxCalls == 2

\* The window A3:R358 is 18 columns wide (A..R).
WindowCols == 18
Blank == [c \in 1..WindowCols |-> ""]
\* A row of the window with the given cells (0-indexed column :> text).
RowOf(cells) == [c \in 1..WindowCols |-> IF c - 1 \in DOMAIN cells THEN cells[c - 1] ELSE ""]

\* The rows the worksheets of the model are made of.
RowPool ==
  { Blank,
    RowOf(0 :> "1ER PERIODO"),
    RowOf(0 :> "0TO PERIODO"),
    RowOf(6 :> " 2do periodo " @@ 4 :> "Titulo" @@ 14 :> "10%" @@ 15 :> "1/1/25"),
    RowOf(14 :> "90%" @@ 15 :> "85%"),
    RowOf(3 :> "3" @@ 4 :> "Fracciones" @@ 14 :> "6/3/25"),
    RowOf(4 :> " Decimales" @@ 14 :> "100,00%" @@ 15 :> "7/3/25" @@ 16 :> "13/13/25"
          @@ 17 :> "abc") }

\* The grid of the specification's worked example (rows 3 to 6 of the sheet).
ExampleGrid ==
  << RowOf(0 :> "1ER PERIODO"),
     RowOf(14 :> "90%" @@ 15 :> "85%"),
     Blank,
     RowOf(3 :> "3" @@ 4 :> "Fracciones" @@ 14 :> "6/3/25") >>

RECURSIVE GridsUpTo(_)
GridsUpTo(n) ==
  IF n = 0 THEN {<<>>}
  ELSE GridsUpTo(n - 1) \cup
       {Append(g, r) : g \in {h \in GridsUpTo(n - 1) : Len(h) = n - 1}, r \in RowPool}

Grids == GridsUpTo(MaxRows) \cup {ExampleGrid}
Titles == {"5to Primaria", "1ro Secundaria"}

\* The width of a row without its trailing empty cells.
UsedWidth(row) ==
  LET used == {c \in DOMAIN row : row[c] # ""}
  IN IF used = {} THEN 0 ELSE CHOOSE c \in used : \A d \in used : c >= d
GridWidth(values) ==
  LET ws == {UsedWidth(values[i]) : i \in DOMAIN values}
  IN IF ws = {} THEN 0 ELSE CHOOSE w \in ws : \A v \in ws : w >= v

\* worksheet.get_as_df(start='A3', end='R358', include_tailing_empty=False,
\* numerize=False, empty_value=''): rows of text, all of the width of the widest
\* row once trailing empty cells are dropped.
GetAsDf(values) == [i \in DOMAIN values |-> SubSeq(values[i], 1, GridWidth(values))]

\* row_values[idx] for a 0-indexed column, guarded by len(row_values) > idx.
HasCol(row_values, idx) == Len(row_values) > idx
Col(row_values, idx) == row_values[idx + 1]

paralelos == <<"A", "B", "C", "D">>
paralelo_indices == [A |-> 14, B |-> 15, C |-> 16, D |-> 17]

\* The ordinal suffixes of the period pattern.
OrdinalSuffixes == {"ER", "DO", "TO"}

\* cell_a + cell_g of a row.
HeaderText(row_values) ==
  LET cell_a == IF HasCol(row_values, 0) THEN Upper(Strip(Chars(Col(row_values, 0)))) ELSE <<>>
      cell_g == IF HasCol(row_values, 6) THEN Upper(Strip(Chars(Col(row_values, 6)))) ELSE <<>>
  IN cell_a \o cell_g

\* What follows the numeral in the period pattern: (?:ER|DO|TO) PERIODO.
PeriodTails == {Chars(sfx) \o Chars(" PERIODO") : sfx \in OrdinalSuffixes}

\* The positions of text where a match of (\d+)(?:ER|DO|TO) PERIODO has the last
\* digit of its numeral.
PeriodMatchEnds(text) ==
  {j \in DOMAIN text :
     /\ IsDigit(text[j])
     /\ \E tail \in PeriodTails : MatchAt(text, j + 1, tail)}

\* re.search(r'(\d+)(?:ER|DO|ER|TO|TO|TO) PERIODO', text): group(1) of the
\* leftmost match (the whole run of digits before the suffix), or <<>> for None.
period_match(text) ==
  IF PeriodMatchEnds(text) = {} THEN <<>>
  ELSE LET j == CHOOSE k \in PeriodMatchEnds(text) : \A l \in PeriodMatchEnds(text) : k <= l
           starts == {i \in 1..j : AllDigits(SubSeq(text, i, j))}
           i == CHOOSE k \in starts : \A l \in starts : k <= l
       IN SubSeq(text, i, j)

IsHeaderRow(row_values) == period_match(HeaderText(row_values)) # <<>>
HeaderNumber(row_values) == IntOf(period_match(HeaderText(row_values)))

RECURSIVE ProgressRecords(_, _, _, _)
\* The records the progress check appends for a row, sections k..4 in order.
ProgressRecords(row_values, grade_level, periodo, k) ==
  IF k > Len(paralelos) THEN <<>>
  ELSE LET paralelo == paralelos[k]
           col_idx == paralelo_indices[paralelo]
           progress_val == IF HasCol(row_values, col_idx)
                           THEN parse_percentage(StrV(Col(row_values, col_idx)))
                           ELSE NoneV
           rest == ProgressRecords(row_values, grade_level, periodo, k + 1)
       IN IF progress_val # NoneV /\ periodo > 0
          THEN << [grade_level |-> grade_level, periodo |-> periodo,
                   paralelo |-> paralelo, progress_percentage |-> progress_val] >> \o rest
          ELSE rest

\* tema_title_raw and tema_number_raw of a row.
TemaTitle(row_values) ==
  IF HasCol(row_values, 4) THEN Str(Strip(Chars(Col(row_values, 4)))) ELSE ""
TemaNumber(row_values) ==
  IF HasCol(row_values, 3) THEN Str(Strip(Chars(Col(row_values, 3)))) ELSE ""

RECURSIVE TopicRecords(_, _, _, _)
\* The records the topic check appends for a row, sections k..4 in order.
TopicRecords(row_values, grade_level, periodo, k) ==
  IF k > Len(paralelos) THEN <<>>
  ELSE LET paralelo == paralelos[k]
           col_idx == paralelo_indices[paralelo]
           completion_date == IF HasCol(row_values, col_idx)
                              THEN parse_date(StrV(Col(row_values, col_idx)))
                              ELSE NoneV
           rest == TopicRecords(row_values, grade_level, periodo, k + 1)
       IN IF completion_date # NoneV
          THEN << [grade_level |-> grade_level, periodo |-> periodo,
                   paralelo |-> paralelo, tema_number |-> TemaNumber(row_values),
                   tema_title |-> TemaTitle(row_values),
                   completion_date |-> completion_date] >> \o rest
          ELSE rest

VARIABLES
  worksheet,                    \* the worksheet handle: its title and the cells of A3:R358
  pc,                           \* "idle" between calls of extract, "rows" inside its loop
  df,                           \* the fetched grid
  index,                        \* the row the loop is at
  current_periodo,
  expect_period_progress_next,
  results,                      \* the dictionary of the two record lists
  emit_log,                     \* per row of this call: its archetype and what it appended
  returns                       \* what each finished call of extract gave its caller

VARIABLES
  sheet_url,                    \* the argument of find_valid_teacher_worksheets
  spreadsheet,                  \* what the client serves for the key: title, worksheets
  vpc,                          \* where the call is: "start", "list", "loop", "done"
  wi,                           \* the worksheet the loop is at
  clean_name_title,
  valid_titles,
  client_calls,                 \* the calls made into the spreadsheet client, in order
  fault,                        \* the error the client or the scorer raised, if any
  outcome                       \* what the call gave its caller: a list or an error

VARIABLES
  active_years,                 \* the AcademicYear rows with is_active, by year
  active_teachers,              \* the Teacher rows with is_active, ordered by full_name
  bpc,                          \* where handle is: "idle", "teacher", "worksheet",
                                \* "period", "topic", "finished", "returned", "raised"
  runs,                         \* the runs of the command started so far
  db_failures,                  \* this run: the update_or_create calls that failed
  teacher_index,                \* the teacher the outer loop is at
  teacher_titles,               \* valid_titles of that teacher
  title_index,                  \* the worksheet the inner loop is at
  extracted_data,               \* what extract_worksheet_data returned for it
  record_index,                 \* the record the record loop is at
  attempted,                    \* this run: the teachers the loop has come to
  period_progress_table,        \* the PeriodProgress rows of the store
  topic_completion_table,       \* the TopicCompletion rows of the store
  batch_log                     \* what the run called and wrote since it came to the
                                \* teacher it is at (or since it started)

VARIABLES
  fn,                           \* the function called: "preprocess_name", "parse_percentage", "parse_date"
  argument,                     \* the value it is called with
  result,                       \* what the call gave: a value, or an exception raised
  applications                  \* how many times the function has been applied

evars == <<worksheet, pc, df, index, current_periodo, expect_period_progress_next,
           results, emit_log, returns>>
vvars == <<sheet_url, spreadsheet, vpc, wi, clean_name_title, valid_titles,
           client_calls, fault, outcome>>
bvars == <<active_years, active_teachers, bpc, runs, db_failures, teacher_index, teacher_titles,
           title_index, extracted_data, record_index, attempted, period_progress_table,
           topic_completion_table, batch_log>>
fvars == <<fn, argument, result, applications>>
vars == <<evars, vvars, bvars, fvars>>

\* What an operation of the extractor, of the validator, of the command and of a
\* function called on its own leaves alone.
NotExtractVars == <<vvars, bvars, fvars>>
NotValidateVars == <<evars, bvars, fvars>>
NotBatchVars == <<evars, vvars, fvars>>
NotFunctionVars == <<evars, vvars, bvars>>

EmptyResults == [period_progress |-> <<>>, topic_completion |-> <<>>]

\* ExtractFetchFails with the handler re-raising the error it caught.
ExtractFetchFailsRaises(err) ==
  /\ pc = "idle"
  /\ Len(returns) < MaxCalls
  /\ results' = EmptyResults
  /\ returns' = Append(returns, [fetched |-> FALSE, raised |-> err, value |-> NoneV])
  /\ UNCHANGED NotExtractVars
  /\ UNCHANGED <<worksheet, pc, df, index, current_periodo,
                 expect_period_progress_next, emit_log>>

\* Lines 221-232 with a fetch that fails with an error of class err: the error is
\* caught and the empty results are returned.
ExtractFetchFails(err) ==
  /\ pc = "idle"
  /\ Len(returns) < MaxCalls
  /\ results' = EmptyResults
  /\ IF IsInstance(err, "Exception")
     THEN returns' = Append(returns, [fetched |-> FALSE, raised |-> "none", value |-> results'])
     ELSE returns' = Append(returns, [fetched |-> FALSE, raised |-> err, value |-> NoneV])
  /\ UNCHANGED NotExtractVars
  /\ UNCHANGED <<worksheet, pc, df, index, current_periodo,
                 expect_period_progress_next, emit_log>>

\* ExtractBegin without line 234: the period of the call before is kept.
ExtractBeginKeepsPeriod ==
  /\ pc = "idle"
  /\ Len(returns) < MaxCalls
  /\ results' = EmptyResults
  /\ df' = GetAsDf(worksheet.values)
  /\ expect_period_progress_next' = FALSE
  /\ index' = 1
  /\ emit_log' = <<>>
  /\ pc' = "rows"
  /\ UNCHANGED NotExtractVars
  /\ UNCHANGED <<worksheet, returns, current_periodo>>

\* ExtractBegin without line 236: the flag of the call before is kept.
ExtractBeginKeepsFlag ==
  /\ pc = "idle"
  /\ Len(returns) < MaxCalls
  /\ results' = EmptyResults
  /\ df' = GetAsDf(worksheet.values)
  /\ current_periodo' = 0
  /\ index' = 1
  /\ emit_log' = <<>>
  /\ pc' = "rows"
  /\ UNCHANGED NotExtractVars
  /\ UNCHANGED <<worksheet, returns, expect_period_progress_next>>

\* Lines 221-238 with a fetch that succeeds: the call enters its loop.
ExtractBegin ==
  /\ pc = "idle"
  /\ Len(returns) < MaxCalls
  /\ results' = EmptyResults
  /\ df' = GetAsDf(worksheet.values)
  /\ current_periodo' = 0
  /\ expect_period_progress_next' = FALSE
  /\ index' = 1
  /\ emit_log' = <<>>
  /\ pc' = "rows"
  /\ UNCHANGED NotExtractVars
  /\ UNCHANGED <<worksheet, returns>>

\* What a row appended to the two lists, for the log.
LogEntry(archetype, before, after) ==
  [ row |-> index,
    archetype |-> archetype,
    period_progress |-> SubSeq(after.period_progress, Len(before.period_progress) + 1,
                               Len(after.period_progress)),
    topic_completion |-> SubSeq(after.topic_completion, Len(before.topic_completion) + 1,
                                Len(after.topic_completion)) ]

InLoop == pc = "rows" /\ index <= Len(df)

\* HeaderRow keeping the period of the header before when the flag is already set.
HeaderRowKeepsFirstPeriod ==
  /\ InLoop
  /\ IsHeaderRow(df[index])
  /\ current_periodo' = IF expect_period_progress_next THEN current_periodo
                        ELSE HeaderNumber(df[index])
  /\ expect_period_progress_next' = TRUE
  /\ emit_log' = Append(emit_log, LogEntry("header", results, results))
  /\ index' = index + 1
  /\ UNCHANGED NotExtractVars
  /\ UNCHANGED <<worksheet, pc, df, results, returns>>

\* HeaderRow taking a header numbered 0 as no change of period.
HeaderRowIgnoresZero ==
  /\ InLoop
  /\ IsHeaderRow(df[index])
  /\ current_periodo' = IF HeaderNumber(df[index]) = 0 THEN current_periodo
                        ELSE HeaderNumber(df[index])
  /\ expect_period_progress_next' = TRUE
  /\ emit_log' = Append(emit_log, LogEntry("header", results, results))
  /\ index' = index + 1
  /\ UNCHANGED NotExtractVars
  /\ UNCHANGED <<worksheet, pc, df, results, returns>>

\* Lines 243-255: the row is a period header.
HeaderRow ==
  /\ InLoop
  /\ IsHeaderRow(df[index])
  /\ current_periodo' = HeaderNumber(df[index])
  /\ expect_period_progress_next' = TRUE
  /\ emit_log' = Append(emit_log, LogEntry("header", results, results))
  /\ index' = index + 1
  /\ UNCHANGED NotExtractVars
  /\ UNCHANGED <<worksheet, pc, df, results, returns>>

\* ProgressRow without the continue of line 274: the row goes on to the topic check.
ProgressRowFallsThrough ==
  /\ InLoop
  /\ ~IsHeaderRow(df[index])
  /\ expect_period_progress_next
  /\ results' =
       [ period_progress |->
           results.period_progress
             \o ProgressRecords(df[index], worksheet.title, current_periodo, 1),
         topic_completion |->
           results.topic_completion
             \o (IF TemaTitle(df[index]) # "" /\ current_periodo > 0
                 THEN TopicRecords(df[index], worksheet.title, current_periodo, 1)
                 ELSE <<>>) ]
  /\ expect_period_progress_next' = FALSE
  /\ emit_log' = Append(emit_log, LogEntry("progress", results, results'))
  /\ index' = index + 1
  /\ UNCHANGED NotExtractVars
  /\ UNCHANGED <<worksheet, pc, df, current_periodo, returns>>

\* ProgressRow without line 272: the flag stays set.
ProgressRowKeepsFlag ==
  /\ InLoop
  /\ ~IsHeaderRow(df[index])
  /\ expect_period_progress_next
  /\ results' = [results EXCEPT !.period_progress =
                   @ \o ProgressRecords(df[index], worksheet.title, current_periodo, 1)]
  /\ emit_log' = Append(emit_log, LogEntry("progress", results, results'))
  /\ index' = index + 1
  /\ UNCHANGED NotExtractVars
  /\ UNCHANGED <<worksheet, pc, df, current_periodo, expect_period_progress_next, returns>>

\* Lines 257-274: the row after a header is read as the progress row.
ProgressRow ==
  /\ InLoop
  /\ ~IsHeaderRow(df[index])
  /\ expect_period_progress_next
  /\ results' = [results EXCEPT !.period_progress =
                   @ \o ProgressRecords(df[index], worksheet.title, current_periodo, 1)]
  /\ expect_period_progress_next' = FALSE
  /\ emit_log' = Append(emit_log, LogEntry("progress", results, results'))
  /\ index' = index + 1
  /\ UNCHANGED NotExtractVars
  /\ UNCHANGED <<worksheet, pc, df, current_periodo, returns>>

\* TopicRow without the test current_periodo > 0 of line 284.
TopicRowWithoutPeriod ==
  /\ InLoop
  /\ ~IsHeaderRow(df[index])
  /\ ~expect_period_progress_next
  /\ TemaTitle(df[index]) # ""
  /\ results' = [results EXCEPT !.topic_completion =
                   @ \o TopicRecords(df[index], worksheet.title, current_periodo, 1)]
  /\ emit_log' = Append(emit_log, LogEntry("topic", results, results'))
  /\ index' = index + 1
  /\ UNCHANGED NotExtractVars
  /\ UNCHANGED <<worksheet, pc, df, current_periodo, expect_period_progress_next, returns>>

\* TopicRow appending nothing for a row without a number in column D.
TopicRowSkipsBlankNumber ==
  /\ InLoop
  /\ ~IsHeaderRow(df[index])
  /\ ~expect_period_progress_next
  /\ TemaTitle(df[index]) # "" /\ current_periodo > 0
  /\ results' = [results EXCEPT !.topic_completion =
                   @ \o (IF TemaNumber(df[index]) = "" THEN <<>>
                         ELSE TopicRecords(df[index], worksheet.title, current_periodo, 1))]
  /\ emit_log' = Append(emit_log, LogEntry("topic", results, results'))
  /\ index' = index + 1
  /\ UNCHANGED NotExtractVars
  /\ UNCHANGED <<worksheet, pc, df, current_periodo, expect_period_progress_next, returns>>

\* Lines 276-303: the row has a title in column E and a period is known.
TopicRow ==
  /\ InLoop
  /\ ~IsHeaderRow(df[index])
  /\ ~expect_period_progress_next
  /\ TemaTitle(df[index]) # "" /\ current_periodo > 0
  /\ results' = [results EXCEPT !.topic_completion =
                   @ \o TopicRecords(df[index], worksheet.title, current_periodo, 1)]
  /\ emit_log' = Append(emit_log, LogEntry("topic", results, results'))
  /\ index' = index + 1
  /\ UNCHANGED NotExtractVars
  /\ UNCHANGED <<worksheet, pc, df, current_periodo, expect_period_progress_next, returns>>

\* Lines 305-307: any other row.
OtherRow ==
  /\ InLoop
  /\ ~IsHeaderRow(df[index])
  /\ ~expect_period_progress_next
  /\ ~(TemaTitle(df[index]) # "" /\ current_periodo > 0)
  /\ expect_period_progress_next' = FALSE
  /\ emit_log' = Append(emit_log, LogEntry("other", results, results))
  /\ index' = index + 1
  /\ UNCHANGED NotExtractVars
  /\ UNCHANGED <<worksheet, pc, df, current_periodo, results, returns>>

\* Line 310: the loop is over and the results are returned.
ExtractReturn ==
  /\ pc = "rows"
  /\ index > Len(df)
  /\ returns' = Append(returns, [fetched |-> TRUE, raised |-> "none", value |-> results])
  /\ pc' = "idle"
  /\ UNCHANGED NotExtractVars
  /\ UNCHANGED <<worksheet, df, index, current_periodo, expect_period_progress_next,
                 results, emit_log>>

\* A worksheet is there and extract has not been called; the validator is not part
\* of the run.
ExtractInit ==
  /\ worksheet \in [title : Titles, values : Grids]
  /\ pc = "idle"
  /\ df = <<>>
  /\ index = 0
  /\ current_periodo = 0
  /\ expect_period_progress_next = FALSE
  /\ results = EmptyResults
  /\ emit_log = <<>>
  /\ returns = <<>>
  /\ sheet_url = ""
  /\ spreadsheet = [title |-> "", worksheets |-> <<>>]
  /\ vpc = "off"
  /\ wi = 0
  /\ clean_name_title = ""
  /\ valid_titles = <<>>
  /\ client_calls = <<>>
  /\ fault = [where |-> "none", err |-> "none"]
  /\ outcome = [kind |-> "none", exc |-> "none", key |-> "", cause |-> "none", value |-> <<>>]
  /\ active_years = {}
  /\ active_teachers = <<>>
  /\ bpc = "off"
  /\ runs = 0
  /\ db_failures = 0
  /\ teacher_index = 0
  /\ teacher_titles = <<>>
  /\ title_index = 0
  /\ extracted_data = EmptyResults
  /\ record_index = 0
  /\ attempted = <<>>
  /\ period_progress_table = {}
  /\ topic_completion_table = {}
  /\ batch_log = <<>>
  /\ fn = "none"
  /\ argument = NoneV
  /\ result = NoneV
  /\ applications = 0

ExtractNext ==
  \/ \E err \in ClientErrors : ExtractFetchFails(err)
  \/ ExtractBegin
  \/ HeaderRow
  \/ ProgressRow
  \/ TopicRow
  \/ OtherRow
  \/ ExtractReturn

(***************************************************************************)
(* WorksheetValidator: find_valid_teacher_worksheets                       *)
(***************************************************************************)

\* Bound of the model: worksheets of a spreadsheet.
MaxSheets == 2

\* The defaults of the parameters.
header_cell == "E3"
expected_header_value == "DOCENTE"
teacher_name_cell == "E4"
similarity_threshold == 80

WorksheetOf(title, header, name) ==
  [title |-> title, cells |-> [E3 |-> header, E4 |-> name]]

\* The worksheets the spreadsheets of the model are made of.
WorksheetPool ==
  { WorksheetOf("1ro", StrV("DOCENTE"), StrV("Lic. Ana Paz")),
    WorksheetOf("2do", StrV(" docente "), StrV("Ana Diaz")),
    WorksheetOf("3ro", StrV("DOCENTES"), StrV("Ana Paz")),
    WorksheetOf("4to", StrV("Docente"), StrV("Ana Po")),
    WorksheetOf("5to", StrV("DOCENTE"), StrV("  ")),
    WorksheetOf("6to", StrV("DOCENTE"), StrV("Dr.")),
    WorksheetOf("Notas", IntV(2025), StrV("Ana Paz")),
    WorksheetOf("Lista", StrV("docente"), IntV(7)),
    WorksheetOf("7mo", StrV("DOCENTE"), StrV("Lic. Maria Lopez")) }

RECURSIVE SheetListsUpTo(_)
\* The lists of at most n worksheets, no worksheet twice.
SheetListsUpTo(n) ==
  IF n = 0 THEN {<<>>}
  ELSE SheetListsUpTo(n - 1) \cup
       UNION { {Append(l, w) : w \in WorksheetPool \ Range(l)} :
               l \in {m \in SheetListsUpTo(n - 1) : Len(m) = n - 1} }

SpreadsheetTitles ==
  {"Ana Paz_Avance 2025", " Paz Ana ", "Lic._Avance 2025", MariaLopezAccented \o "_Avance 2025"}
SheetUrls ==
  { "https://docs.google.com/spreadsheets/d/ABC123-xyz/edit",
    "https://example.com",
    "https://docs.google.com/spreadsheets/d/" }

\* wks.get_value(cell)
get_value(wks, cell) == wks.cells[cell]

\* Lines 135-138: the name part of the spreadsheet title, cleaned.
TitleName(title) ==
  preprocess_name(StrV(Str(Strip(SplitOn(Strip(Chars(title)), "_")[1]))))

\* HeaderMatches testing that the header contains the expected text.
HeaderMatchesContains(value) ==
  /\ value.tag = "str"
  /\ \E i \in 1..Len(value.s) :
       MatchAt(Upper(Strip(Chars(value.s))), i, Upper(Chars(expected_header_value)))

\* Lines 144-146: the header check.
HeaderMatches(value) ==
  /\ value.tag = "str"
  /\ Upper(Strip(Chars(value.s))) = Upper(Chars(expected_header_value))

\* Line 150: the name cell holds text that is not blank.
NameCellUsable(value) == value.tag = "str" /\ Strip(Chars(value.s)) # <<>>

\* MeetsThreshold with > for >=.
MeetsThresholdStrict(score) == score > similarity_threshold

\* Line 169: the score meets the threshold.
MeetsThreshold(score) == score >= similarity_threshold

NoFault == [where |-> "none", err |-> "none"]
NoOutcome == [kind |-> "none", exc |-> "none", key |-> "", cause |-> "none", value |-> <<>>]
Return(value) == [NoOutcome EXCEPT !.kind = "return", !.value = value]
\* raise exc, its message carrying key, chained from cause.
Raise(exc, key, cause) ==
  [NoOutcome EXCEPT !.kind = "raise", !.exc = exc, !.key = key, !.cause = cause]

ClientCall(op, wks, cell) == [op |-> op, wks |-> wks, cell |-> cell]

\* Handler turning every error, ImportError too, into RuntimeError.
HandlerWrapsAll(err, key) ==
  IF IsInstance(err, "Exception") THEN Raise("RuntimeError", key, err)
  ELSE Raise(err, "", "none")

\* Lines 177-182: what the except clauses around the loop make of an error.
Handler(err, key) ==
  IF IsInstance(err, "ImportError") THEN Raise(err, "", "none")
  ELSE IF IsInstance(err, "Exception") THEN Raise("RuntimeError", key, err)
  ELSE Raise(err, "", "none")

\* The errors authorizing, opening, and the calls inside the loop can raise.
AuthorizeErrors == {"FileNotFoundError", "AuthenticationError", "HttpError"}
OpenErrors == ClientErrors
LoopErrors == ClientErrors \cup {"ImportError", "ModuleNotFoundError", "ValueError"}

sheet_key == extract_sheet_key_from_url(sheet_url)

\* FindKeyMissing authorizing the client before it tests the key.
FindKeyMissingAfterAuthorize ==
  /\ vpc = "start"
  /\ sheet_key = ""
  /\ client_calls' = Append(client_calls, ClientCall("authorize", "", ""))
  /\ outcome' = Raise("ValueError", "", "none")
  /\ vpc' = "done"
  /\ UNCHANGED NotValidateVars
  /\ UNCHANGED <<sheet_url, spreadsheet, wi, clean_name_title, valid_titles, fault>>

\* Lines 120-122: no key in the URL.
FindKeyMissing ==
  /\ vpc = "start"
  /\ sheet_key = ""
  /\ outcome' = Raise("ValueError", "", "none")
  /\ vpc' = "done"
  /\ UNCHANGED NotValidateVars
  /\ UNCHANGED <<sheet_url, spreadsheet, wi, clean_name_title, valid_titles,
                 client_calls, fault>>

\* Line 124 and lines 50-58: authorizing fails, and the error is raised again.
FindAuthorizeFails(err) ==
  /\ vpc = "start"
  /\ sheet_key # ""
  /\ client_calls' = Append(client_calls, ClientCall("authorize", "", ""))
  /\ fault' = [where |-> "authorize", err |-> err]
  /\ outcome' = Raise(err, "", "none")
  /\ vpc' = "done"
  /\ UNCHANGED NotValidateVars
  /\ UNCHANGED <<sheet_url, spreadsheet, wi, clean_name_title, valid_titles>>

\* FindOpenFails with the error wrapped as the loop's handler wraps one.
FindOpenFailsWrapped(err) ==
  /\ vpc = "start"
  /\ sheet_key # ""
  /\ client_calls' = client_calls \o << ClientCall("authorize", "", ""),
                                        ClientCall("open_by_key", "", "") >>
  /\ fault' = [where |-> "open_by_key", err |-> err]
  /\ outcome' = Raise("RuntimeError", sheet_key, err)
  /\ vpc' = "done"
  /\ UNCHANGED NotValidateVars
  /\ UNCHANGED <<sheet_url, spreadsheet, wi, clean_name_title, valid_titles>>

\* Lines 124-128: opening the spreadsheet fails, and the error is raised again.
FindOpenFails(err) ==
  /\ vpc = "start"
  /\ sheet_key # ""
  /\ client_calls' = client_calls \o << ClientCall("authorize", "", ""),
                                        ClientCall("open_by_key", "", "") >>
  /\ fault' = [where |-> "open_by_key", err |-> err]
  /\ outcome' = Raise(err, "", "none")
  /\ vpc' = "done"
  /\ UNCHANGED NotValidateVars
  /\ UNCHANGED <<sheet_url, spreadsheet, wi, clean_name_title, valid_titles>>

\* Lines 120-138: the spreadsheet opens and the name of its title is cleaned.
FindOpen ==
  /\ vpc = "start"
  /\ sheet_key # ""
  /\ client_calls' = client_calls \o << ClientCall("authorize", "", ""),
                                        ClientCall("open_by_key", "", "") >>
  /\ valid_titles' = <<>>
  /\ clean_name_title' = TitleName(spreadsheet.title)
  /\ vpc' = "list"
  /\ UNCHANGED NotValidateVars
  /\ UNCHANGED <<sheet_url, spreadsheet, wi, fault, outcome>>

\* Line 141: sh.worksheets() fails inside the try.
ListWorksheetsFails(err) ==
  /\ vpc = "list"
  /\ client_calls' = Append(client_calls, ClientCall("worksheets", "", ""))
  /\ fault' = [where |-> "worksheets", err |-> err]
  /\ outcome' = Handler(err, sheet_key)
  /\ vpc' = "done"
  /\ UNCHANGED NotValidateVars
  /\ UNCHANGED <<sheet_url, spreadsheet, wi, clean_name_title, valid_titles>>

\* Line 141: sh.worksheets() gives the worksheets in their order.
ListWorksheets ==
  /\ vpc = "list"
  /\ client_calls' = Append(client_calls, ClientCall("worksheets", "", ""))
  /\ wi' = 1
  /\ vpc' = "loop"
  /\ UNCHANGED NotValidateVars
  /\ UNCHANGED <<sheet_url, spreadsheet, clean_name_title, valid_titles, fault, outcome>>

InSheetLoop == vpc = "loop" /\ wi <= Len(spreadsheet.worksheets)
wks == spreadsheet.worksheets[wi]
ReadHeader == ClientCall("get_value", wks.title, header_cell)
ReadName == ClientCall("get_value", wks.title, teacher_name_cell)
clean_name_cell == preprocess_name(get_value(wks, teacher_name_cell))

\* The worksheet at wi gets as far as the name cell, and as far as the scorer.
ReachesNameCell == HeaderMatches(get_value(wks, header_cell))
ReachesScorer ==
  /\ ReachesNameCell
  /\ NameCellUsable(get_value(wks, teacher_name_cell))
  /\ clean_name_title # "" /\ clean_name_cell # ""

\* The loop ends in the handler with an error raised at `where`.
FailInLoop(where, err, calls) ==
  /\ client_calls' = client_calls \o calls
  /\ fault' = [where |-> where, err |-> err]
  /\ outcome' = Handler(err, sheet_key)
  /\ vpc' = "done"
  /\ UNCHANGED NotValidateVars
  /\ UNCHANGED <<sheet_url, spreadsheet, wi, clean_name_title, valid_titles>>

\* The loop goes on to the next worksheet, the list of titles being titles.
NextWorksheet(calls, titles) ==
  /\ client_calls' = client_calls \o calls
  /\ valid_titles' = titles
  /\ wi' = wi + 1
  /\ UNCHANGED NotValidateVars
  /\ UNCHANGED <<sheet_url, spreadsheet, vpc, clean_name_title, fault, outcome>>

\* Line 143: reading the header cell fails.
HeaderReadFails(err) ==
  /\ InSheetLoop
  /\ FailInLoop("get_value", err, <<ReadHeader>>)

\* Lines 143-146: the header cell is no text or not the expected header.
HeaderSkip ==
  /\ InSheetLoop
  /\ ~HeaderMatches(get_value(wks, header_cell))
  /\ NextWorksheet(<<ReadHeader>>, valid_titles)

\* Line 149: reading the name cell fails.
NameReadFails(err) ==
  /\ InSheetLoop
  /\ ReachesNameCell
  /\ FailInLoop("get_value", err, <<ReadHeader, ReadName>>)

\* Lines 149-152: the name cell is no text or blank.
NameSkip ==
  /\ InSheetLoop
  /\ ReachesNameCell
  /\ ~NameCellUsable(get_value(wks, teacher_name_cell))
  /\ NextWorksheet(<<ReadHeader, ReadName>>, valid_titles)

\* Lines 155-160: one of the two cleaned names is empty.
CleanSkip ==
  /\ InSheetLoop
  /\ ReachesNameCell
  /\ NameCellUsable(get_value(wks, teacher_name_cell))
  /\ clean_name_title = "" \/ clean_name_cell = ""
  /\ NextWorksheet(<<ReadHeader, ReadName>>, valid_titles)

\* Line 164: the scorer fails.
ScorerFails(err) ==
  /\ InSheetLoop
  /\ ReachesScorer
  /\ FailInLoop("token_set_ratio", err, <<ReadHeader, ReadName>>)

\* Lines 164-169: the score is below the threshold.
ScoreReject ==
  /\ InSheetLoop
  /\ ReachesScorer
  /\ ~MeetsThreshold(token_set_ratio(clean_name_cell, clean_name_title))
  /\ NextWorksheet(<<ReadHeader, ReadName>>, valid_titles)

\* Lines 164-171: the score meets the threshold and the title is accepted.
ScoreAccept ==
  /\ InSheetLoop
  /\ ReachesScorer
  /\ MeetsThreshold(token_set_ratio(clean_name_cell, clean_name_title))
  /\ NextWorksheet(<<ReadHeader, ReadName>>, Append(valid_titles, wks.title))

\* Line 184: the loop is over and the titles are returned.
FindReturn ==
  /\ vpc = "loop"
  /\ wi > Len(spreadsheet.worksheets)
  /\ outcome' = Return(valid_titles)
  /\ vpc' = "done"
  /\ UNCHANGED NotValidateVars
  /\ UNCHANGED <<sheet_url, spreadsheet, wi, clean_name_title, valid_titles,
                 client_calls, fault>>

\* A URL and the spreadsheet behind it are there and the validator has not been
\* called; the extractor is not part of the run.
ValidateInit ==
  /\ sheet_url \in SheetUrls
  /\ spreadsheet \in [title : SpreadsheetTitles, worksheets : SheetListsUpTo(MaxSheets)]
  /\ vpc = "start"
  /\ wi = 0
  /\ clean_name_title = ""
  /\ valid_titles = <<>>
  /\ client_calls = <<>>
  /\ fault = NoFault
  /\ outcome = NoOutcome
  /\ worksheet = [title |-> "", values |-> <<>>]
  /\ pc = "off"
  /\ df = <<>>
  /\ index = 0
  /\ current_periodo = 0
  /\ expect_period_progress_next = FALSE
  /\ results = EmptyResults
  /\ emit_log = <<>>
  /\ returns = <<>>
  /\ active_years = {}
  /\ active_teachers = <<>>
  /\ bpc = "off"
  /\ runs = 0
  /\ db_failures = 0
  /\ teacher_index = 0
  /\ teacher_titles = <<>>
  /\ title_index = 0
  /\ extracted_data = EmptyResults
  /\ record_index = 0
  /\ attempted = <<>>
  /\ period_progress_table = {}
  /\ topic_completion_table = {}
  /\ batch_log = <<>>
  /\ fn = "none"
  /\ argument = NoneV
  /\ result = NoneV
  /\ applications = 0

ValidateNext ==
  \/ FindKeyMissing
  \/ \E err \in AuthorizeErrors : FindAuthorizeFails(err)
  \/ \E err \in OpenErrors : FindOpenFails(err)
  \/ FindOpen
  \/ \E err \in LoopErrors : ListWorksheetsFails(err)
  \/ ListWorksheets
  \/ \E err \in LoopErrors : HeaderReadFails(err)
  \/ HeaderSkip
  \/ \E err \in LoopErrors : NameReadFails(err)
  \/ NameSkip
  \/ CleanSkip
  \/ \E err \in LoopErrors : ScorerFails(err)
  \/ ScoreReject
  \/ ScoreAccept
  \/ FindReturn

(***************************************************************************)
(* UpdateOrchestrator: Command.handle of update_progress_data, and the     *)
(* store it writes (teachers/models.py, academics/models.py).              *)
(***************************************************************************)

\* Bounds of the model: active teachers, runs of the command, failures of
\* update_or_create in a run.
MaxTeachers == 2
MaxRuns == 2
MaxDbFailures == 1

\* The Teacher rows of the model, in the order of Meta.ordering (full_name); the
\* first one has a URL that holds no spreadsheet key.
TeacherPool ==
  << [id |-> 1, full_name |-> "Ana Paz", google_sheet_url |-> "https://example.com"],
     [id |-> 2, full_name |-> "Luis Rey",
      google_sheet_url |-> "https://docs.google.com/spreadsheets/d/ABC123-xyz/edit"],
     [id |-> 3, full_name |-> "Rosa Gil",
      google_sheet_url |-> "https://docs.google.com/spreadsheets/d/DEF456_uvw/edit"] >>

\* Teacher.objects.filter(is_active=True): the active rows, ordered by full_name.
TeacherListsUpTo(n) ==
  { [i \in 1..Cardinality(ids) |->
       TeacherPool[CHOOSE k \in ids : Cardinality({j \in ids : j < k}) = i - 1]] :
    ids \in {x \in SUBSET DOMAIN TeacherPool : Cardinality(x) <= n} }

\* The sets of active academic years: none, one, two.
ActiveYearSets == {{}, {2025}, {2024, 2025}}

\* QuerySet.get(): the one matching row, DoesNotExist, or MultipleObjectsReturned.
Get(matching) ==
  IF matching = {} THEN [err |-> "DoesNotExist", obj |-> NoneV]
  ELSE IF Cardinality(matching) = 1
       THEN [err |-> "none", obj |-> CHOOSE r \in matching : TRUE]
       ELSE [err |-> "MultipleObjectsReturned", obj |-> NoneV]

\* AcademicYear.objects.get(is_active=True)
current_academic_year == Get(active_years)

\* The lookup tables of academics/models.py: GradeLevel and Paralelo have their
\* code as primary key; Periodo is unique per (trimestre, number) only, so a
\* number can be held by two trimestres of one year.
GradeLevelTable == {"5to Primaria"}
ParaleloTable == {"A", "B", "C"}
PeriodoTable ==
  { [id |-> 1, academic_year |-> 2025, trimestre |-> 1, number |-> 1],
    [id |-> 2, academic_year |-> 2025, trimestre |-> 1, number |-> 2],
    [id |-> 3, academic_year |-> 2025, trimestre |-> 2, number |-> 3],
    [id |-> 4, academic_year |-> 2025, trimestre |-> 3, number |-> 3] }

\* Lines 64-66 and 88-90: the three lookups of a record, in order; the first one
\* that fails raises.
Lookup(record, year) ==
  LET grade_level_obj == Get({c \in GradeLevelTable : c = record.grade_level})
      periodo_obj == Get({p \in PeriodoTable :
                            p.academic_year = year /\ p.number = record.periodo})
      paralelo_obj == Get({c \in ParaleloTable : c = record.paralelo})
      err == IF grade_level_obj.err # "none" THEN grade_level_obj.err
             ELSE IF periodo_obj.err # "none" THEN periodo_obj.err
             ELSE paralelo_obj.err
  IN [ err |-> err, grade_level |-> grade_level_obj.obj, periodo |-> periodo_obj.obj,
       paralelo |-> paralelo_obj.obj ]

\* The except clause that takes an error of a record: lines 79-80 and 108-109 for the
\* DoesNotExist classes, lines 81-82 and 110-111 for any other Exception.
RecordHandler(err) == IF err = "DoesNotExist" THEN "Lookup Error" ELSE "DB Error"

\* Model.objects.update_or_create(**key, defaults=defaults) on a table: the row
\* with the key gets the defaults; without one, a row is created.  A table is the
\* set of its rows.
UpdateOrCreateAlwaysCreates(table, key, defaults) ==
  [err |-> "none", table |-> table \cup {key @@ defaults}]

update_or_create(table, key, defaults) ==
  LET found == Get({r \in table : \A f \in DOMAIN key : r[f] = key[f]})
  IN IF found.err = "MultipleObjectsReturned" THEN [err |-> found.err, table |-> table]
     ELSE IF found.err = "DoesNotExist"
          THEN [err |-> "none", table |-> table \cup {key @@ defaults}]
          ELSE [ err |-> "none",
                 table |-> (table \ {found.obj})
                             \cup {[f \in DOMAIN found.obj |->
                                      IF f \in DOMAIN defaults THEN defaults[f]
                                      ELSE found.obj[f]]} ]

\* The key and the defaults of lines 68-78 and of lines 93-107.  The rows of the
\* model leave out last_updated, the time of the write, and subject, which the
\* command never sets.
PeriodKey(teacher, year, found) ==
  [ teacher |-> teacher.id, academic_year |-> year, grade_level |-> found.grade_level,
    periodo |-> found.periodo.id, paralelo |-> found.paralelo ]
PeriodDefaults(record) == [progress_percentage |-> record.progress_percentage]
TopicKeyWithTitle(teacher, year, found, record) ==
  [ teacher |-> teacher.id, academic_year |-> year, grade_level |-> found.grade_level,
    periodo |-> found.periodo.id, paralelo |-> found.paralelo,
    tema_number |-> record.tema_number, tema_title |-> record.tema_title ]
TopicKey(teacher, year, found, record) ==
  [ teacher |-> teacher.id, academic_year |-> year, grade_level |-> found.grade_level,
    periodo |-> found.periodo.id, paralelo |-> found.paralelo,
    tema_number |-> record.tema_number ]
TopicDefaults(record) ==
  [tema_title |-> record.tema_title, completion_date |-> record.completion_date]

\* What the spreadsheet service and the two functions of the engine can give the
\* command.  find_valid_teacher_worksheets raises ValueError for a URL without a
\* key and, with a key, raises what authorizing, opening or its loop raise, or
\* returns titles; extract_worksheet_data returns its two lists.
BatchAuthorizeErrors == {"FileNotFoundError", "AuthenticationError"}
\* extract_sheet_key_from_url of the URL of each teacher of the pool, by teacher id.
SheetKeys ==
  [i \in DOMAIN TeacherPool |-> extract_sheet_key_from_url(TeacherPool[i].google_sheet_url)]
ValidationErrors(key) ==
  IF key = "" THEN {"ValueError"} ELSE {"FileNotFoundError", "RuntimeError"}
BatchOpenErrors == {"SpreadsheetNotFound"}
BatchWorksheetErrors == {"WorksheetNotFound"}
BatchTitles == {"5to Primaria", "Notas"}
TitleLists == {<<"5to Primaria">>, <<"Notas", "5to Primaria">>}

\* The lists extract_worksheet_data returns for a worksheet titled title, built as
\* the extractor builds them from rows: the same key twice, a section and periods
\* the store has no row for, topics that share a number, and topics without one.
ExtractedPool(title) ==
  { EmptyResults,
    [ period_progress |->
        ProgressRecords(RowOf(14 :> "50%"), title, 1, 1)
          \o ProgressRecords(RowOf(14 :> "90%" @@ 17 :> "85%"), title, 1, 1),
      topic_completion |->
        TopicRecords(RowOf(3 :> "3" @@ 4 :> "Fracciones" @@ 14 :> "6/3/25"), title, 1, 1)
          \o TopicRecords(RowOf(3 :> "3" @@ 4 :> "Decimales" @@ 14 :> "7/3/25"),
                          title, 1, 1) ],
    [ period_progress |->
        ProgressRecords(RowOf(14 :> "10%"), title, 3, 1)
          \o ProgressRecords(RowOf(14 :> "90%"), title, 1, 1)
          \o ProgressRecords(RowOf(14 :> "20%"), title, 4, 1),
      topic_completion |->
        TopicRecords(RowOf(4 :> "Intro" @@ 14 :> "6/3/25"), title, 1, 1)
          \o TopicRecords(RowOf(4 :> "Repaso" @@ 14 :> "7/3/25"), title, 1, 1) ] }

\* ExtractedPool of each title of the model.
ExtractedPools == [t \in BatchTitles |-> ExtractedPool(t)]

\* An entry of batch_log: a line the command wrote to stdout or stderr, or a call
\* it made into the spreadsheet client.
Event(kind, teacher, title, cause) ==
  [kind |-> kind, teacher |-> teacher, title |-> title, cause |-> cause]

CanStart == bpc \in {"idle", "finished", "returned", "raised"} /\ runs < MaxRuns
\* A call of handle starts with its own local variables.
NewLocals ==
  /\ runs' = runs + 1
  /\ db_failures' = 0
  /\ attempted' = <<>>
  /\ teacher_titles' = <<>>
  /\ title_index' = 0
  /\ extracted_data' = EmptyResults
  /\ record_index' = 0

\* HandleNoYear without the return of lines 24 and 27: the run goes on to line 35
\* and into the loop over the teachers.
HandleNoYearGoesOn ==
  /\ CanStart
  /\ current_academic_year.err # "none"
  /\ NewLocals
  /\ bpc' = "teacher"
  /\ teacher_index' = 1
  /\ batch_log' = <<Event("No active year", 0, "", current_academic_year.err),
                    Event("authorize", 0, "", "call")>>
  /\ UNCHANGED NotBatchVars
  /\ UNCHANGED <<active_years, active_teachers, period_progress_table,
                 topic_completion_table>>

\* Lines 16-27: there is no active academic year, or more than one; handle returns.
HandleNoYear ==
  /\ CanStart
  /\ current_academic_year.err # "none"
  /\ NewLocals
  /\ bpc' = "returned"
  /\ teacher_index' = 0
  /\ batch_log' = <<Event("No active year", 0, "", current_academic_year.err)>>
  /\ UNCHANGED NotBatchVars
  /\ UNCHANGED <<active_years, active_teachers, period_progress_table,
                 topic_completion_table>>

\* Lines 16-35 with get_pygsheets_client raising err: the call of line 35 is in no
\* try, so handle raises err.
HandleAuthorizeFails(err) ==
  /\ CanStart
  /\ current_academic_year.err = "none"
  /\ NewLocals
  /\ bpc' = "raised"
  /\ teacher_index' = 0
  /\ batch_log' = <<Event("authorize", 0, "", "call"), Event("raised", 0, "", err)>>
  /\ UNCHANGED NotBatchVars
  /\ UNCHANGED <<active_years, active_teachers, period_progress_table,
                 topic_completion_table>>

\* Lines 16-37: the year is found, the client is authorized, the loop starts.
HandleBegin ==
  /\ CanStart
  /\ current_academic_year.err = "none"
  /\ NewLocals
  /\ bpc' = "teacher"
  /\ teacher_index' = 1
  /\ batch_log' = <<Event("authorize", 0, "", "call")>>
  /\ UNCHANGED NotBatchVars
  /\ UNCHANGED <<active_years, active_teachers, period_progress_table,
                 topic_completion_table>>

InTeacherLoop == bpc = "teacher" /\ teacher_index <= Len(active_teachers)
teacher == active_teachers[teacher_index]
\* Line 38: the teacher is announced; batch_log starts again with it.
Processing == Event("Processing teacher", teacher.id, "", "")

\* TeacherValidationFails with the handler of lines 116-117 raising the error again.
TeacherValidationFailsStops(err) ==
  /\ InTeacherLoop
  /\ err \in ValidationErrors(SheetKeys[teacher.id])
  /\ attempted' = Append(attempted, teacher.id)
  /\ batch_log' = <<Processing, Event("raised", teacher.id, "", err)>>
  /\ bpc' = "raised"
  /\ UNCHANGED NotBatchVars
  /\ UNCHANGED <<active_years, active_teachers, runs, db_failures, teacher_index,
                 teacher_titles, title_index, extracted_data, record_index,
                 period_progress_table, topic_completion_table>>

\* Lines 38-43 and 116-117: find_valid_teacher_worksheets raises err; it is reported
\* and the loop goes to the next teacher.
TeacherValidationFails(err) ==
  /\ InTeacherLoop
  /\ err \in ValidationErrors(SheetKeys[teacher.id])
  /\ attempted' = Append(attempted, teacher.id)
  /\ batch_log' = <<Processing, Event("Failed processing teacher", teacher.id, "", err)>>
  /\ teacher_index' = teacher_index + 1
  /\ UNCHANGED NotBatchVars
  /\ UNCHANGED <<active_years, active_teachers, bpc, runs, db_failures, teacher_titles,
                 title_index, extracted_data, record_index, period_progress_table,
                 topic_completion_table>>

\* Lines 38-46: no worksheet is valid; the loop goes to the next teacher.
TeacherNoWorksheets ==
  /\ InTeacherLoop
  /\ SheetKeys[teacher.id] # ""
  /\ attempted' = Append(attempted, teacher.id)
  /\ batch_log' = <<Processing, Event("No valid worksheets", teacher.id, "", "")>>
  /\ teacher_titles' = <<>>
  /\ teacher_index' = teacher_index + 1
  /\ UNCHANGED NotBatchVars
  /\ UNCHANGED <<active_years, active_teachers, bpc, runs, db_failures, title_index,
                 extracted_data, record_index, period_progress_table,
                 topic_completion_table>>

\* Lines 38-48 and 116-117: worksheets are valid but gc.open_by_key raises err.
TeacherOpenFails(titles, err) ==
  /\ InTeacherLoop
  /\ SheetKeys[teacher.id] # ""
  /\ attempted' = Append(attempted, teacher.id)
  /\ batch_log' = <<Processing, Event("open_by_key", teacher.id, "", "call"),
                    Event("Failed processing teacher", teacher.id, "", err)>>
  /\ teacher_titles' = titles
  /\ teacher_index' = teacher_index + 1
  /\ UNCHANGED NotBatchVars
  /\ UNCHANGED <<active_years, active_teachers, bpc, runs, db_failures, title_index,
                 extracted_data, record_index, period_progress_table,
                 topic_completion_table>>

\* Lines 38-51: worksheets are valid and the spreadsheet opens.
TeacherOpen(titles) ==
  /\ InTeacherLoop
  /\ SheetKeys[teacher.id] # ""
  /\ attempted' = Append(attempted, teacher.id)
  /\ batch_log' = <<Processing, Event("open_by_key", teacher.id, "", "call")>>
  /\ teacher_titles' = titles
  /\ title_index' = 1
  /\ bpc' = "worksheet"
  /\ UNCHANGED NotBatchVars
  /\ UNCHANGED <<active_years, active_teachers, runs, db_failures, teacher_index,
                 extracted_data, record_index, period_progress_table,
                 topic_completion_table>>

InWorksheetLoop == bpc = "worksheet" /\ title_index <= Len(teacher_titles)
worksheet_title == teacher_titles[title_index]

\* Lines 52-54 and 113-114: sh.worksheet_by_title raises err; it is reported and the
\* loop goes to the next worksheet.
WorksheetFails(err) ==
  /\ InWorksheetLoop
  /\ batch_log' = batch_log
       \o <<Event("Processing worksheet", teacher.id, worksheet_title, ""),
            Event("Failed processing worksheet", teacher.id, worksheet_title, err)>>
  /\ title_index' = title_index + 1
  /\ UNCHANGED NotBatchVars
  /\ UNCHANGED <<active_years, active_teachers, bpc, runs, db_failures, teacher_index,
                 teacher_titles, extracted_data, record_index, attempted,
                 period_progress_table, topic_completion_table>>

\* Lines 52-61: the worksheet is there and extract_worksheet_data returns its lists.
WorksheetExtract ==
  /\ InWorksheetLoop
  /\ batch_log' = Append(batch_log,
                         Event("Processing worksheet", teacher.id, worksheet_title, ""))
  /\ extracted_data' \in ExtractedPools[worksheet_title]
  /\ record_index' = 1
  /\ bpc' = "period"
  /\ UNCHANGED NotBatchVars
  /\ UNCHANGED <<active_years, active_teachers, runs, db_failures, teacher_index,
                 teacher_titles, title_index, attempted, period_progress_table,
                 topic_completion_table>>

\* The year of line 21 and the record the record loop is at.
year == current_academic_year.obj
InPeriodLoop == bpc = "period" /\ record_index <= Len(extracted_data.period_progress)
InTopicLoop == bpc = "topic" /\ record_index <= Len(extracted_data.topic_completion)
record ==
  IF bpc = "period" THEN extracted_data.period_progress[record_index]
  ELSE extracted_data.topic_completion[record_index]

\* An error of the record is written to stderr and the loop goes to the next one.
ReportRecord(kind, err) ==
  /\ batch_log' = Append(batch_log,
                         Event(RecordHandler(err), teacher.id, worksheet_title,
                               <<kind, record_index, err>>))
  /\ record_index' = record_index + 1

\* PeriodLookupFails with the error leaving the record loops: it is taken by the
\* handler of the worksheet, lines 113-114, and the next worksheet is gone to.
PeriodLookupFailsLeavesLoop ==
  /\ InPeriodLoop
  /\ Lookup(record, year).err # "none"
  /\ batch_log' = Append(batch_log,
                         Event("Failed processing worksheet", teacher.id, worksheet_title,
                               Lookup(record, year).err))
  /\ bpc' = "worksheet"
  /\ title_index' = title_index + 1
  /\ UNCHANGED NotBatchVars
  /\ UNCHANGED <<active_years, active_teachers, runs, db_failures, teacher_index,
                 teacher_titles, extracted_data, record_index, attempted,
                 period_progress_table, topic_completion_table>>

\* Lines 62-66 and 79-82: a lookup of the record raises; it is reported.
PeriodLookupFails ==
  /\ InPeriodLoop
  /\ Lookup(record, year).err # "none"
  /\ ReportRecord("Period Progress", Lookup(record, year).err)
  /\ UNCHANGED NotBatchVars
  /\ UNCHANGED <<active_years, active_teachers, bpc, runs, db_failures, teacher_index,
                 teacher_titles, title_index, extracted_data, attempted,
                 period_progress_table, topic_completion_table>>

\* Lines 62-78 and 81-82: update_or_create raises; it is reported.
PeriodSaveFails ==
  /\ InPeriodLoop
  /\ Lookup(record, year).err = "none"
  /\ db_failures < MaxDbFailures
  /\ db_failures' = db_failures + 1
  /\ ReportRecord("Period Progress", "DatabaseError")
  /\ UNCHANGED NotBatchVars
  /\ UNCHANGED <<active_years, active_teachers, bpc, runs, teacher_index,
                 teacher_titles, title_index, extracted_data, attempted,
                 period_progress_table, topic_completion_table>>

\* Lines 62-78: the row of the record's key is updated, or created.
PeriodSave ==
  /\ InPeriodLoop
  /\ \E found \in {Lookup(record, year)} :
       /\ found.err = "none"
       /\ \E key \in {PeriodKey(teacher, year, found)} :
            \E saved \in {update_or_create(period_progress_table, key,
                                           PeriodDefaults(record))} :
              /\ saved.err = "none"
              /\ period_progress_table' = saved.table
  /\ record_index' = record_index + 1
  /\ UNCHANGED NotBatchVars
  /\ UNCHANGED <<active_years, active_teachers, bpc, runs, db_failures, teacher_index,
                 teacher_titles, title_index, extracted_data, attempted,
                 topic_completion_table, batch_log>>

\* Line 61 with no record left: the topic loop of line 86 starts.
PeriodDone ==
  /\ bpc = "period"
  /\ record_index > Len(extracted_data.period_progress)
  /\ bpc' = "topic"
  /\ record_index' = 1
  /\ UNCHANGED NotBatchVars
  /\ UNCHANGED <<active_years, active_teachers, runs, db_failures, teacher_index,
                 teacher_titles, title_index, extracted_data, attempted,
                 period_progress_table, topic_completion_table, batch_log>>

\* Lines 87-90 and 108-111: a lookup of the record raises; it is reported.
TopicLookupFails ==
  /\ InTopicLoop
  /\ Lookup(record, year).err # "none"
  /\ ReportRecord("Topic Completion", Lookup(record, year).err)
  /\ UNCHANGED NotBatchVars
  /\ UNCHANGED <<active_years, active_teachers, bpc, runs, db_failures, teacher_index,
                 teacher_titles, title_index, extracted_data, attempted,
                 period_progress_table, topic_completion_table>>

\* Lines 87-107 and 110-111: update_or_create raises; it is reported.
TopicSaveFails ==
  /\ InTopicLoop
  /\ Lookup(record, year).err = "none"
  /\ db_failures < MaxDbFailures
  /\ db_failures' = db_failures + 1
  /\ ReportRecord("Topic Completion", "DatabaseError")
  /\ UNCHANGED NotBatchVars
  /\ UNCHANGED <<active_years, active_teachers, bpc, runs, teacher_index,
                 teacher_titles, title_index, extracted_data, attempted,
                 period_progress_table, topic_completion_table>>

\* Lines 87-107: the row of the record's key is updated, or created.
TopicSave ==
  /\ InTopicLoop
  /\ \E found \in {Lookup(record, year)} :
       /\ found.err = "none"
       /\ \E key \in {TopicKey(teacher, year, found, record)} :
            \E saved \in {update_or_create(topic_completion_table, key,
                                           TopicDefaults(record))} :
              /\ saved.err = "none"
              /\ topic_completion_table' = saved.table
  /\ record_index' = record_index + 1
  /\ UNCHANGED NotBatchVars
  /\ UNCHANGED <<active_years, active_teachers, bpc, runs, db_failures, teacher_index,
                 teacher_titles, title_index, extracted_data, attempted,
                 period_progress_table, batch_log>>

\* Line 86 with no record left: the loop of line 51 goes to the next worksheet.
TopicDone ==
  /\ bpc = "topic"
  /\ record_index > Len(extracted_data.topic_completion)
  /\ bpc' = "worksheet"
  /\ title_index' = title_index + 1
  /\ UNCHANGED NotBatchVars
  /\ UNCHANGED <<active_years, active_teachers, runs, db_failures, teacher_index,
                 teacher_titles, extracted_data, record_index, attempted,
                 period_progress_table, topic_completion_table, batch_log>>

\* Line 51 with no worksheet left: the loop of line 37 goes to the next teacher.
WorksheetsDone ==
  /\ bpc = "worksheet"
  /\ title_index > Len(teacher_titles)
  /\ bpc' = "teacher"
  /\ teacher_index' = teacher_index + 1
  /\ UNCHANGED NotBatchVars
  /\ UNCHANGED <<active_years, active_teachers, runs, db_failures, teacher_titles,
                 title_index, extracted_data, record_index, attempted,
                 period_progress_table, topic_completion_table, batch_log>>

\* Line 119: no teacher is left; the run reports that it finished.
HandleFinish ==
  /\ bpc = "teacher"
  /\ teacher_index > Len(active_teachers)
  /\ bpc' = "finished"
  /\ batch_log' = Append(batch_log, Event("Data update process finished", 0, "", ""))
  /\ UNCHANGED NotBatchVars
  /\ UNCHANGED <<active_years, active_teachers, runs, db_failures, teacher_index,
                 teacher_titles, title_index, extracted_data, record_index, attempted,
                 period_progress_table, topic_completion_table>>

\* Between two runs the years marked active change (AcademicYear.is_active is
\* edited in the store); the command has no part in it.
SetActiveYears(years) ==
  /\ bpc \in {"finished", "returned", "raised"}
  /\ runs < MaxRuns
  /\ years # active_years
  /\ active_years' = years
  /\ UNCHANGED NotBatchVars
  /\ UNCHANGED <<active_teachers, bpc, runs, db_failures, teacher_index, teacher_titles,
                 title_index, extracted_data, record_index, attempted,
                 period_progress_table, topic_completion_table, batch_log>>

\* The store is empty, the active years and teachers are given, and the command has
\* not run; the extractor and the validator are not part of the run.
BatchInit ==
  /\ active_years \in ActiveYearSets
  /\ active_teachers \in TeacherListsUpTo(MaxTeachers)
  /\ bpc = "idle"
  /\ runs = 0
  /\ db_failures = 0
  /\ teacher_index = 0
  /\ teacher_titles = <<>>
  /\ title_index = 0
  /\ extracted_data = EmptyResults
  /\ record_index = 0
  /\ attempted = <<>>
  /\ period_progress_table = {}
  /\ topic_completion_table = {}
  /\ batch_log = <<>>
  /\ worksheet = [title |-> "", values |-> <<>>]
  /\ pc = "off"
  /\ df = <<>>
  /\ index = 0
  /\ current_periodo = 0
  /\ expect_period_progress_next = FALSE
  /\ results = EmptyResults
  /\ emit_log = <<>>
  /\ returns = <<>>
  /\ sheet_url = ""
  /\ spreadsheet = [title |-> "", worksheets |-> <<>>]
  /\ vpc = "off"
  /\ wi = 0
  /\ clean_name_title = ""
  /\ valid_titles = <<>>
  /\ client_calls = <<>>
  /\ fault = [where |-> "none", err |-> "none"]
  /\ outcome = [kind |-> "none", exc |-> "none", key |-> "", cause |-> "none", value |-> <<>>]
  /\ fn = "none"
  /\ argument = NoneV
  /\ result = NoneV
  /\ applications = 0

BatchNext ==
  \/ HandleNoYear
  \/ \E err \in BatchAuthorizeErrors : HandleAuthorizeFails(err)
  \/ HandleBegin
  \/ \E err \in {"ValueError", "FileNotFoundError", "RuntimeError"} :
       TeacherValidationFails(err)
  \/ TeacherNoWorksheets
  \/ \E titles \in TitleLists, err \in BatchOpenErrors : TeacherOpenFails(titles, err)
  \/ \E titles \in TitleLists : TeacherOpen(titles)
  \/ \E err \in BatchWorksheetErrors : WorksheetFails(err)
  \/ WorksheetExtract
  \/ PeriodLookupFails
  \/ PeriodSaveFails
  \/ PeriodSave
  \/ PeriodDone
  \/ TopicLookupFails
  \/ TopicSaveFails
  \/ TopicSave
  \/ TopicDone
  \/ WorksheetsDone
  \/ HandleFinish
  \/ \E years \in ActiveYearSets : SetActiveYears(years)

(***************************************************************************)
(* The normalizer and the coercers, called on their own                    *)
(***************************************************************************)

\* Bound of the model: the pieces a name given to preprocess_name is made of.
MaxPieces == 3

\* Pieces of names: titles in several cases, with and without the full stop, parts
\* that make a title when joined ("ms", "c"), word and non-word characters, and
\* whitespace.
NamePieces == {"Lic", "dr", "DOCTOR", "ms", "c", "sra", "Ana", " ", "\t ", ".", "_", "-"}

RECURSIVE NamesUpTo(_)
\* The texts made of at most n pieces.
NamesUpTo(n) ==
  IF n = 0 THEN {""}
  ELSE NamesUpTo(n - 1) \cup {s \o p : s \in NamesUpTo(n - 1), p \in NamePieces}

\* Values that are no text.
NonTextValues ==
  { NoneV, IntV(7), IntV(-50), BigIntV(1, 308), BigIntV(2, 308), BigIntV(1, 400),
    BigIntV(-1, 400), FloatV(905, 1), SpecialFloatV("nan"), SpecialFloatV("inf"),
    DateV(2025, 3, 6) }

\* Cell texts given to the coercers: well-formed and malformed percentages and dates.
CellTexts ==
  { "", " ", "50%", "100,00%", " 85 % ", "90", "-5%", "1e5", "inf", "nan",
    "abc", "%", "50%%", "5 0%", "1.2.3", "6/3/25", " 7/3/25 ", "31/2/25", "29/2/24",
    "7/13/25", "06/03/2025", "6-3-25", "6/3", "0/1/25", "Decimales" }

FunctionInputs(f) ==
  IF f = "preprocess_name"
  THEN {StrV(s) : s \in NamesUpTo(MaxPieces)} \cup NonTextValues
  ELSE {StrV(s) : s \in CellTexts} \cup NonTextValues

\* The function at hand applied to value: what it returns, or what it raises.
Apply(f, value) ==
  IF f = "preprocess_name" THEN StrV(preprocess_name(value))
  ELSE IF f = "parse_percentage" THEN parse_percentage(value)
  ELSE parse_date(value)

\* preprocess_name(name) is called.
CallPreprocessName ==
  /\ fn = "preprocess_name"
  /\ applications = 0
  /\ result' = Apply(fn, argument)
  /\ applications' = 1
  /\ UNCHANGED NotFunctionVars
  /\ UNCHANGED <<fn, argument>>

\* preprocess_name is called with what it returned.
CallPreprocessNameAgain ==
  /\ fn = "preprocess_name"
  /\ applications = 1
  /\ result' = Apply(fn, result)
  /\ applications' = 2
  /\ UNCHANGED NotFunctionVars
  /\ UNCHANGED <<fn, argument>>

\* parse_percentage(value) is called.
CallParsePercentage ==
  /\ fn = "parse_percentage"
  /\ applications = 0
  /\ result' = Apply(fn, argument)
  /\ applications' = 1
  /\ UNCHANGED NotFunctionVars
  /\ UNCHANGED <<fn, argument>>

\* parse_date(value) is called.
CallParseDate ==
  /\ fn = "parse_date"
  /\ applications = 0
  /\ result' = Apply(fn, argument)
  /\ applications' = 1
  /\ UNCHANGED NotFunctionVars
  /\ UNCHANGED <<fn, argument>>

\* A function and a value to call it with; the engine and the command are not part
\* of the run.
FunctionsInit ==
  /\ fn \in {"preprocess_name", "parse_percentage", "parse_date"}
  /\ argument \in FunctionInputs(fn)
  /\ result = NoneV
  /\ applications = 0
  /\ worksheet = [title |-> "", values |-> <<>>]
  /\ pc = "off"
  /\ df = <<>>
  /\ index = 0
  /\ current_periodo = 0
  /\ expect_period_progress_next = FALSE
  /\ results = EmptyResults
  /\ emit_log = <<>>
  /\ returns = <<>>
  /\ sheet_url = ""
  /\ spreadsheet = [title |-> "", worksheets |-> <<>>]
  /\ vpc = "off"
  /\ wi = 0
  /\ clean_name_title = ""
  /\ valid_titles = <<>>
  /\ client_calls = <<>>
  /\ fault = [where |-> "none", err |-> "none"]
  /\ outcome = [kind |-> "none", exc |-> "none", key |-> "", cause |-> "none", value |-> <<>>]
  /\ active_years = {}
  /\ active_teachers = <<>>
  /\ bpc = "off"
  /\ runs = 0
  /\ db_failures = 0
  /\ teacher_index = 0
  /\ teacher_titles = <<>>
  /\ title_index = 0
  /\ extracted_data = EmptyResults
  /\ record_index = 0
  /\ attempted = <<>>
  /\ period_progress_table = {}
  /\ topic_completion_table = {}
  /\ batch_log = <<>>

FunctionsNext ==
  \/ CallPreprocessName
  \/ CallPreprocessNameAgain
  \/ CallParsePercentage
  \/ CallParseDate

(***************************************************************************)
(* Specifications: the extractor alone, the validator alone, the command    *)
(* alone, a function alone; SpecBatchFair adds that a run that can take a  *)
(* step takes one.                                                         *)
(***************************************************************************)

SpecExtract == ExtractInit /\ [][ExtractNext]_vars
SpecValidate == ValidateInit /\ [][ValidateNext]_vars
SpecBatch == BatchInit /\ [][BatchNext]_vars
SpecBatchFair == SpecBatch /\ WF_vars(BatchNext)
SpecFunctions == FunctionsInit /\ [][FunctionsNext]_vars

(***************************************************************************)
(* Properties of extract_worksheet_data                                    *)
(***************************************************************************)

\* The rows of the worked example.
ExampleHeader == RowOf(0 :> "1ER PERIODO")
ExampleProgress == RowOf(14 :> "90%" @@ 15 :> "85%")
ExampleTopic == RowOf(3 :> "3" @@ 4 :> "Fracciones" @@ 14 :> "6/3/25")

\* A grid of the example's shape: the header, the progress row right after it,
\* and the topic row later, with nothing but empty rows in between.
IsExampleShaped(values) ==
  /\ Len(values) >= 3
  /\ values[1] = ExampleHeader
  /\ values[2] = ExampleProgress
  /\ values[Len(values)] = ExampleTopic
  /\ \A i \in 3..(Len(values) - 1) : values[i] = Blank

ExampleResults(grade_level) ==
  [ period_progress |->
      << [grade_level |-> grade_level, periodo |-> 1, paralelo |-> "A",
          progress_percentage |-> FloatV(90, 0)],
         [grade_level |-> grade_level, periodo |-> 1, paralelo |-> "B",
          progress_percentage |-> FloatV(85, 0)] >>,
    topic_completion |->
      << [grade_level |-> grade_level, periodo |-> 1, paralelo |-> "A",
          tema_number |-> "3", tema_title |-> "Fracciones",
          completion_date |-> DateV(2025, 3, 6)] >> ]

\* C1: for the grid '1ER PERIODO' / '90%','85%' in O,P / (empty rows) / 'Fracciones',
\* '3', '6/3/25', extract returns exactly the two progress records (periodo 1, A 90.0
\* then B 85.0) and the one topic record (periodo 1, A, '3', 'Fracciones',
\* 2025-03-06), and nothing else.
C1_ExampleGrid ==
  \A i \in DOMAIN returns :
    (IsExampleShaped(worksheet.values) /\ returns[i].fetched)
      => returns[i].value = ExampleResults(worksheet.title)

\* The example grid itself, with its empty row, has been extracted.
C1_Witness ==
  /\ worksheet.values = ExampleGrid
  /\ \E i \in DOMAIN returns : returns[i].fetched /\ returns[i].raised = "none"

\* The records a row appended, of both kinds.
PeriodosOf(entry) ==
  {entry.period_progress[k].periodo : k \in DOMAIN entry.period_progress}
    \cup {entry.topic_completion[k].periodo : k \in DOMAIN entry.topic_completion}
Emitted(entry) == entry.period_progress # <<>> \/ entry.topic_completion # <<>>

\* The header rows above row i of the fetched grid, and the nearest of them.
HeadersAbove(i) == {h \in 1..(i - 1) : IsHeaderRow(df[h])}
NearestHeaderAbove(i) == CHOOSE h \in HeadersAbove(i) : \A g \in HeadersAbove(i) : h >= g

\* C2: every record's periodo is >= 1 and is the number of the nearest period-header
\* row above the row that produced it; rows before the first header emit nothing.
C2_PeriodoFromHeader ==
  \A k \in DOMAIN emit_log :
    Emitted(emit_log[k]) =>
      /\ HeadersAbove(emit_log[k].row) # {}
      /\ \A p \in PeriodosOf(emit_log[k]) :
           /\ p >= 1
           /\ p = HeaderNumber(df[NearestHeaderAbove(emit_log[k].row)])

\* A row emitted under a second header whose number differs from the first's.
C2_Witness ==
  \E k \in DOMAIN emit_log :
    /\ Emitted(emit_log[k])
    /\ \E h \in HeadersAbove(emit_log[k].row) :
         HeaderNumber(df[h]) \notin PeriodosOf(emit_log[k])

ParalelosOf(entry) ==
  [k \in DOMAIN entry.period_progress |-> entry.period_progress[k].paralelo]
    \o [k \in DOMAIN entry.topic_completion |-> entry.topic_completion[k].paralelo]

Archetypes == {"header", "progress", "topic", "other"}

\* C3: each row is handled as exactly one archetype; a header row emits nothing, no
\* row emits records of both kinds, and a row emits at most one record per section.
C3_OneArchetypePerRow ==
  /\ pc = "rows" => Len(emit_log) = index - 1
  /\ \A k \in DOMAIN emit_log :
       LET entry == emit_log[k]
           secs == ParalelosOf(entry)
       IN /\ entry.row = k
          /\ entry.archetype \in Archetypes
          /\ (entry.archetype = "header") = IsHeaderRow(df[k])
          /\ IsHeaderRow(df[k]) => ~Emitted(entry)
          /\ ~(entry.period_progress # <<>> /\ entry.topic_completion # <<>>)
          /\ \A a, b \in DOMAIN secs : secs[a] = secs[b] => a = b

\* A row carrying a title and dates was read as the progress row and gave progress
\* records only, and a header row carrying data gave nothing.
C3_Witness ==
  /\ \E k \in DOMAIN emit_log :
       /\ emit_log[k].archetype = "progress"
       /\ emit_log[k].period_progress # <<>>
       /\ TemaTitle(df[k]) # ""
       /\ TopicRecords(df[k], worksheet.title, current_periodo, 1) # <<>>
  /\ \E k \in DOMAIN emit_log :
       /\ emit_log[k].archetype = "header"
       /\ ProgressRecords(df[k], worksheet.title, 1, 1) # <<>>

\* C4: a call of extract whose grid fetch fails returns the two empty lists and
\* raises nothing.
C4_FetchFailureReturnsEmpty ==
  \A i \in DOMAIN returns :
    ~returns[i].fetched =>
      /\ returns[i].raised = "none"
      /\ returns[i].value = [period_progress |-> <<>>, topic_completion |-> <<>>]

\* A fetch failed after a call on the same worksheet had returned records.
C4_Witness ==
  \E i, j \in DOMAIN returns :
    /\ i < j
    /\ returns[i].fetched /\ returns[i].value.period_progress # <<>>
    /\ ~returns[j].fetched

RECURSIVE LoggedProgress(_)
LoggedProgress(log) ==
  IF log = <<>> THEN <<>> ELSE Head(log).period_progress \o LoggedProgress(Tail(log))
RECURSIVE LoggedTopics(_)
LoggedTopics(log) ==
  IF log = <<>> THEN <<>> ELSE Head(log).topic_completion \o LoggedTopics(Tail(log))

SectionRank(paralelo) == CHOOSE k \in DOMAIN paralelos : paralelos[k] = paralelo
InSectionOrder(recs) ==
  \A a, b \in DOMAIN recs : a < b => SectionRank(recs[a].paralelo) < SectionRank(recs[b].paralelo)

\* C5: two calls of extract on the same snapshot return equal lists, and each list
\* is in row order and, within a row, in section order A, B, C, D.
C5_Idempotent ==
  /\ \A i, j \in DOMAIN returns :
       (returns[i].fetched /\ returns[j].fetched) => returns[i].value = returns[j].value
  /\ pc = "rows" =>
       /\ results.period_progress = LoggedProgress(emit_log)
       /\ results.topic_completion = LoggedTopics(emit_log)
  /\ \A k \in DOMAIN emit_log :
       /\ InSectionOrder(emit_log[k].period_progress)
       /\ InSectionOrder(emit_log[k].topic_completion)

\* Two calls have returned, each with records of both kinds from several rows.
C5_Witness ==
  \E i, j \in DOMAIN returns :
    /\ i < j
    /\ returns[i].fetched /\ returns[j].fetched
    /\ Len(returns[j].value.period_progress) >= 2
    /\ returns[j].value.topic_completion # <<>>

\* The row at k of the fetched grid follows a header row and is no header itself.
FollowsHeader(k) == k > 1 /\ IsHeaderRow(df[k - 1]) /\ ~IsHeaderRow(df[k])

\* C16: a header row sets current_periodo to its number and the flag to true and
\* appends nothing, whatever the period and the flag were; so, of two header rows
\* in a row, the second decides the period, and the row after the second, if no
\* header, is read as the progress row of the second's period.
C16_HeaderOverrides ==
  /\ [][ InLoop /\ IsHeaderRow(df[index]) =>
           /\ current_periodo' = HeaderNumber(df[index])
           /\ expect_period_progress_next' = TRUE
           /\ results' = results
           /\ index' = index + 1 ]_vars
  /\ [](\A k \in DOMAIN emit_log :
          (k > 2 /\ IsHeaderRow(df[k - 2]) /\ FollowsHeader(k)) =>
            /\ ~Emitted(emit_log[k - 2]) /\ ~Emitted(emit_log[k - 1])
            /\ emit_log[k].archetype = "progress"
            /\ emit_log[k].topic_completion = <<>>
            /\ emit_log[k].period_progress =
                 ProgressRecords(df[k], worksheet.title, HeaderNumber(df[k - 1]), 1))

\* Two headers with different numbers followed each other, and the row after the
\* second gave progress records of the second's period.
C16_Witness ==
  /\ Len(emit_log) = 3
  /\ IsHeaderRow(df[1]) /\ IsHeaderRow(df[2])
  /\ HeaderNumber(df[1]) = 1 /\ HeaderNumber(df[2]) = 2
  /\ emit_log[3].archetype = "progress"
  /\ Len(emit_log[3].period_progress) = 2
  /\ \A j \in DOMAIN emit_log[3].period_progress : emit_log[3].period_progress[j].periodo = 2

\* C17: at the start of each row the flag is true exactly when the row before was a
\* header; progress records come only from a row that follows a header and is no
\* header, and that row, read as the progress row, gives no topic record, whatever
\* its column E and its section columns hold.
C17_ProgressOnlyAfterHeader ==
  /\ pc = "rows" =>
       (expect_period_progress_next = (index > 1 /\ IsHeaderRow(df[index - 1])))
  /\ \A k \in DOMAIN emit_log :
       /\ emit_log[k].period_progress # <<>> => FollowsHeader(k)
       /\ FollowsHeader(k) =>
            /\ emit_log[k].archetype = "progress"
            /\ emit_log[k].topic_completion = <<>>

\* The row after a header held a title in column E and a date in a section column:
\* it gave its percentage as a progress record and no topic record, and the row
\* after it was read with the flag cleared.
C17_Witness ==
  /\ pc = "rows"
  /\ Len(emit_log) = 3
  /\ IsHeaderRow(df[1])
  /\ TemaTitle(df[2]) # ""
  /\ TopicRecords(df[2], worksheet.title, 1, 1) # <<>>
  /\ emit_log[2].archetype = "progress"
  /\ emit_log[2].period_progress # <<>>
  /\ emit_log[3].archetype = "topic"
  /\ ~expect_period_progress_next

\* The text of the 0-indexed column idx of a row, empty when the row ends before it.
CellText(row_values, idx) == IF HasCol(row_values, idx) THEN Col(row_values, idx) ELSE ""
\* The period in force at row k: the number of the nearest header above, 0 without.
PeriodAt(k) ==
  IF HeadersAbove(k) = {} THEN 0 ELSE HeaderNumber(df[NearestHeaderAbove(k)])
\* The sections of a row whose cell (O, P, Q, R for A, B, C, D) parses as a date.
DatedSections(row_values) ==
  { paralelos[j] : j \in { i \in DOMAIN paralelos :
                             parse_date(StrV(CellText(row_values, 13 + i))) # NoneV } }

\* C18: current_periodo at a row is the number of the nearest header above it, 0
\* without one; a row that is no header and does not follow one gives, when its
\* column E trimmed is not empty and current_periodo >= 1, one topic record for each
\* section whose cell parses as a date and for no other, each with column D trimmed
\* as tema_number, column E trimmed as tema_title, the period in force, the
\* worksheet title as grade_level and the date of the section's cell; otherwise it
\* gives nothing.
C18_TopicRowRecords ==
  /\ InLoop => current_periodo = PeriodAt(index)
  /\ \A k \in DOMAIN emit_log :
    (~IsHeaderRow(df[k]) /\ ~FollowsHeader(k)) =>
      LET row_values == df[k]
          recs == emit_log[k].topic_completion
      IN /\ emit_log[k].period_progress = <<>>
         /\ IF Strip(Chars(CellText(row_values, 4))) # <<>> /\ PeriodAt(k) > 0
            THEN /\ {recs[j].paralelo : j \in DOMAIN recs} = DatedSections(row_values)
                 /\ Len(recs) = Cardinality(DatedSections(row_values))
                 /\ \A j \in DOMAIN recs :
                      /\ recs[j].tema_number = Str(Strip(Chars(CellText(row_values, 3))))
                      /\ recs[j].tema_title = Str(Strip(Chars(CellText(row_values, 4))))
                      /\ recs[j].periodo = PeriodAt(k)
                      /\ recs[j].grade_level = worksheet.title
                      /\ recs[j].completion_date =
                           parse_date(StrV(CellText(row_values,
                                                    paralelo_indices[recs[j].paralelo])))
            ELSE recs = <<>>

\* Under a header of period 1, after the progress row, a row without a number in
\* column D, with a title to trim, a percentage in O, a date in P and malformed
\* cells in Q and R gave one topic record, for section B, with an empty tema_number.
C18_Witness ==
  /\ Len(emit_log) = 3
  /\ IsHeaderRow(df[1]) /\ HeaderNumber(df[1]) = 1
  /\ ~IsHeaderRow(df[2])
  /\ CellText(df[3], 3) = "" /\ CellText(df[3], 4) = " Decimales"
  /\ CellText(df[3], 14) = "100,00%" /\ CellText(df[3], 16) = "13/13/25"
  /\ LET r == emit_log[3].topic_completion
     IN /\ Len(r) = 1
        /\ r[1].paralelo = "B" /\ r[1].tema_number = "" /\ r[1].tema_title = "Decimales"
        /\ r[1].periodo = 1
        /\ r[1].completion_date = DateV(2025, 3, 7)

(***************************************************************************)
(* Properties of find_valid_teacher_worksheets                             *)
(***************************************************************************)

\* The worksheets of the spreadsheet that carry a title.
SheetsTitled(title) == {w \in Range(spreadsheet.worksheets) : w.title = title}

\* The header cell, trimmed and uppercased, is the expected header uppercased.
HeaderIsDocente(w) ==
  /\ w.cells.E3.tag = "str"
  /\ Str(Upper(Strip(Chars(w.cells.E3.s)))) = "DOCENTE"

\* The score of a worksheet's name cell against the name of the spreadsheet title.
ScoreOf(w) ==
  token_set_ratio(preprocess_name(w.cells.E4), TitleName(spreadsheet.title))

\* C6: no worksheet whose header cell, trimmed and uppercased, differs from DOCENTE
\* is ever among the accepted titles or in the returned list, whatever its name
\* cell scores.
C6_HeaderGate ==
  /\ \A k \in DOMAIN valid_titles : \A w \in SheetsTitled(valid_titles[k]) : HeaderIsDocente(w)
  /\ \A k \in DOMAIN outcome.value : \A w \in SheetsTitled(outcome.value[k]) : HeaderIsDocente(w)

\* A list was returned that leaves out a worksheet whose name cell scores 100 and
\* whose header is not the expected one, and holds another worksheet.
C6_Witness ==
  /\ outcome.kind = "return"
  /\ outcome.value # <<>>
  /\ \E w \in Range(spreadsheet.worksheets) :
       /\ ~HeaderIsDocente(w)
       /\ w.cells.E4.tag = "str" /\ ScoreOf(w) = 100
       /\ w.title \notin Range(outcome.value)

\* The four checks of a worksheet, as the claim lists them.
PassesChecks(w) ==
  /\ HeaderIsDocente(w)
  /\ w.cells.E4.tag = "str" /\ Strip(Chars(w.cells.E4.s)) # <<>>
  /\ preprocess_name(w.cells.E4) # "" /\ TitleName(spreadsheet.title) # ""
  /\ ScoreOf(w) >= similarity_threshold

RECURSIVE TitlesPassing(_)
\* The titles of the worksheets of a list that pass, in the order of the list.
TitlesPassing(sheets) ==
  IF sheets = <<>> THEN <<>>
  ELSE (IF PassesChecks(Head(sheets)) THEN <<Head(sheets).title>> ELSE <<>>)
         \o TitlesPassing(Tail(sheets))

\* C7: with no error, the call returns exactly the titles of the worksheets that pass
\* the header check, the name-cell check, the cleaned-name check and score >=
\* threshold, in worksheet order; a failing worksheet does not stop the ones after
\* it, and an empty list is a normal return.
C7_ExactSubsequence ==
  /\ outcome.kind = "return" => outcome.value = TitlesPassing(spreadsheet.worksheets)
  /\ (vpc = "done" /\ fault = NoFault /\ sheet_key # "") => outcome.kind = "return"
  /\ vpc = "loop" =>
       valid_titles = TitlesPassing(SubSeq(spreadsheet.worksheets, 1, wi - 1))

\* A list was returned whose first worksheet was skipped and that holds a later
\* worksheet scoring exactly the threshold.
C7_Witness ==
  /\ outcome.kind = "return"
  /\ Len(spreadsheet.worksheets) >= 2
  /\ spreadsheet.worksheets[1].title \notin Range(outcome.value)
  /\ \E w \in Range(spreadsheet.worksheets) :
       /\ w.title \in Range(outcome.value)
       /\ ScoreOf(w) = similarity_threshold

\* C8: when the URL holds no key, the call raises ValueError and has made no call
\* to the spreadsheet client.
C8_NoKeyNoClientCall ==
  extract_sheet_key_from_url(sheet_url) = "" =>
    /\ client_calls = <<>>
    /\ vpc = "done" => (outcome.kind = "raise" /\ outcome.exc = "ValueError")

\* The call has ended on a URL that has the path of a spreadsheet and no key.
C8_Witness ==
  /\ vpc = "done"
  /\ sheet_url = "https://docs.google.com/spreadsheets/d/"
  /\ outcome.exc = "ValueError"

\* Where an error is raised inside the try of the loop.
LoopPlaces == {"worksheets", "get_value", "token_set_ratio"}
ImportErrors == {"ImportError", "ModuleNotFoundError"}

\* C9: an error raised while the worksheets are iterated reaches the caller as one
\* RuntimeError carrying the spreadsheet key, except an ImportError, which reaches
\* the caller as itself.
C9_LoopErrorsWrapped ==
  fault.where \in LoopPlaces =>
    /\ outcome.kind = "raise"
    /\ IF fault.err \in ImportErrors
       THEN outcome.exc = fault.err
       ELSE /\ outcome.exc = "RuntimeError"
            /\ outcome.key = extract_sheet_key_from_url(sheet_url)
            /\ outcome.key # ""
            /\ outcome.cause = fault.err

\* The scorer raised ImportError after a worksheet had been accepted.
C9_Witness ==
  /\ fault.where = "token_set_ratio"
  /\ fault.err = "ImportError"
  /\ outcome.exc = "ImportError"
  /\ valid_titles # <<>>

\* Authentication failure, spreadsheet or worksheet not found, permission denied.
AccessErrors == {"AuthenticationError", "SpreadsheetNotFound", "WorksheetNotFound", "HttpError"}

\* C10 as stated: an access error raised by the client reaches the caller as that
\* same error, wherever in the call it is raised.
C10_AccessErrorsUncaught ==
  (fault.where # "none" /\ fault.err \in AccessErrors) =>
    (outcome.kind = "raise" /\ outcome.exc = fault.err)

\* C10, amended: an access error raised while authorizing or opening the spreadsheet
\* reaches the caller as that same error; one raised while listing the worksheets or
\* reading a cell reaches the caller as a RuntimeError that carries the key and has
\* the access error as its cause.
C10_AccessErrorsByPlace ==
  (fault.where # "none" /\ fault.err \in AccessErrors) =>
    /\ outcome.kind = "raise"
    /\ fault.where \in {"authorize", "open_by_key"} =>
         (outcome.exc = fault.err /\ outcome.cause = "none")
    /\ fault.where \in LoopPlaces =>
         /\ outcome.exc = "RuntimeError"
         /\ outcome.cause = fault.err
         /\ outcome.key = extract_sheet_key_from_url(sheet_url)

\* Opening the spreadsheet failed with SpreadsheetNotFound.
C10_Witness ==
  /\ fault.where = "open_by_key"
  /\ fault.err = "SpreadsheetNotFound"
  /\ outcome.exc = "SpreadsheetNotFound"

(***************************************************************************)
(* Properties of Command.handle and of the store                           *)
(***************************************************************************)

\* The ids of the active teachers, in the order of the loop.
TeacherIds == [i \in DOMAIN active_teachers |-> active_teachers[i].id]
IsWorksheetLine(e) == e.kind = "Processing worksheet"
IsTeacherFailure(e) == e.kind = "Failed processing teacher"
IsWorksheetFailure(e) == e.kind = "Failed processing worksheet"
\* The titles of the worksheets the run has come to for the teacher it is at.
WorksheetsAttempted ==
  LET ls == SelectSeq(batch_log, IsWorksheetLine) IN [i \in DOMAIN ls |-> ls[i].title]
InBatchLoop == bpc \in {"teacher", "worksheet", "period", "topic"}
\* The spreadsheet of the teacher the run is at, or was last at, opened.
Opened ==
  /\ \E i \in DOMAIN batch_log : batch_log[i].kind = "open_by_key"
  /\ SelectSeq(batch_log, IsTeacherFailure) = <<>>

\* C11: once the loop over the teachers has started, the run reaches its finished
\* state having come to every active teacher, in order, whatever failed on the way;
\* and when the loop over the worksheets of a teacher whose spreadsheet opened is
\* over, it has come to every valid worksheet, in order.
C11_BatchContinues ==
  /\ [](((bpc \in {"teacher", "finished"} \/ (bpc = "worksheet" /\ ~InWorksheetLoop))
          /\ Opened)
        => WorksheetsAttempted = teacher_titles)
  /\ (InBatchLoop ~> (bpc = "finished" /\ attempted = TeacherIds))

\* A run finished after the first teacher failed (its URL holds no key) and, for the
\* second one, after the first worksheet failed and the second was extracted.
C11_Witness ==
  /\ bpc = "finished"
  /\ attempted = <<1, 2>>
  /\ Len(SelectSeq(batch_log, IsWorksheetLine)) = 2
  /\ Len(SelectSeq(batch_log, IsWorksheetFailure)) = 1
  /\ batch_log[3].kind = "Processing worksheet" /\ batch_log[4].kind = "Failed processing worksheet"

\* C12: no configuration error makes handle raise: a missing service-account file or
\* a failed authorization is reported for the teacher at hand and the run goes on.
C12_ConfigErrorNeverCrashes ==
  /\ bpc # "raised"
  /\ \A i \in DOMAIN batch_log : batch_log[i].kind # "raised"

\* The fields of the unique_together of PeriodProgress and of TopicCompletion.
PeriodProgressUnique == {"teacher", "academic_year", "grade_level", "periodo", "paralelo"}
TopicCompletionUnique == PeriodProgressUnique \cup {"tema_number"}
SameKey(r1, r2, fields) == \A f \in fields : r1[f] = r2[f]
AtMostOnePerKey(table, fields) ==
  \A r1, r2 \in table : SameKey(r1, r2, fields) => r1 = r2
\* The key the record at hand stands for: the teacher and the year of the run, the
\* worksheet's grade level, the Periodo of the year with the record's number, and
\* the record's section.
NaturalKey ==
  [ teacher |-> teacher.id, academic_year |-> year, grade_level |-> record.grade_level,
    periodo |-> (CHOOSE p \in PeriodoTable :
                   p.academic_year = year /\ p.number = record.periodo).id,
    paralelo |-> record.paralelo ]
\* A step of the record loops that ends without an error line: the upsert was done.
RecordProcessed == record_index' = record_index + 1 /\ batch_log' = batch_log
NoRecordErrorLogged ==
  \A i \in DOMAIN batch_log : batch_log[i].kind \notin {"Lookup Error", "DB Error"}

\* C13: the store never holds two PeriodProgress rows with the same (teacher,
\* academic year, grade level, periodo, paralelo); the table changes only when a
\* record of the period loop is processed, and then the one row of the record's key
\* holds the record's progress_percentage while every row of another key is as it
\* was: the stored value of a key is that of the last record processed for it.
C13_PeriodProgressSuperseded ==
  /\ [](AtMostOnePerKey(period_progress_table, PeriodProgressUnique))
  /\ [][ /\ period_progress_table' # period_progress_table => InPeriodLoop /\ RecordProcessed
         /\ InPeriodLoop /\ RecordProcessed =>
              /\ { r \in period_progress_table' : SameKey(r, NaturalKey, PeriodProgressUnique) }
                   = { NaturalKey @@ [progress_percentage |-> record.progress_percentage] }
              /\ { r \in period_progress_table' : ~SameKey(r, NaturalKey, PeriodProgressUnique) }
                   = { r \in period_progress_table : ~SameKey(r, NaturalKey, PeriodProgressUnique) }
       ]_vars

\* One scan emitted the same key twice, with 50% and then 90%: after both records
\* the store holds one row for the key, with 90.
C13_Witness ==
  /\ bpc = "period"
  /\ record_index = 3
  /\ NoRecordErrorLogged
  /\ LET first == extracted_data.period_progress[1]
         second == extracted_data.period_progress[2]
     IN /\ first.periodo = second.periodo /\ first.paralelo = second.paralelo
        /\ first.progress_percentage = parse_percentage(StrV("50%"))
        /\ second.progress_percentage = parse_percentage(StrV("90%"))
        /\ \E r \in period_progress_table :
             /\ r.teacher = teacher.id /\ r.paralelo = second.paralelo
             /\ r.progress_percentage = second.progress_percentage
        /\ Cardinality({r \in period_progress_table : r.teacher = teacher.id}) = 1

\* The key of a topic record: the natural key and the record's tema_number.
TopicNaturalKey == NaturalKey @@ [tema_number |-> record.tema_number]

\* C20: the store never holds two TopicCompletion rows with the same (teacher,
\* academic year, grade level, periodo, paralelo, tema_number), a blank tema_number
\* being the empty text; the table changes only when a record of the topic loop is
\* processed, and then the one row of the record's key holds the record's title and
\* completion date, whatever title the row had, while the rows of other keys are
\* as they were.
C20_TopicUpsertKeepsOneRow ==
  /\ [](AtMostOnePerKey(topic_completion_table, TopicCompletionUnique))
  /\ [][ /\ topic_completion_table' # topic_completion_table
              => InTopicLoop /\ RecordProcessed
         /\ InTopicLoop /\ RecordProcessed =>
              /\ { r \in topic_completion_table' :
                     SameKey(r, TopicNaturalKey, TopicCompletionUnique) }
                   = { TopicNaturalKey @@ [ tema_title |-> record.tema_title,
                                            completion_date |-> record.completion_date ] }
              /\ { r \in topic_completion_table' :
                     ~SameKey(r, TopicNaturalKey, TopicCompletionUnique) }
                   = { r \in topic_completion_table :
                         ~SameKey(r, TopicNaturalKey, TopicCompletionUnique) }
       ]_vars

\* One scan emitted two topics without a number, "Intro" and then "Repaso", for the
\* same period and section: after both the store holds one row with a blank
\* tema_number for the teacher, titled "Repaso" and dated as the second record.
C20_Witness ==
  /\ bpc = "topic"
  /\ record_index = 3
  /\ \A i \in DOMAIN batch_log :
       batch_log[i].kind \in {"Lookup Error", "DB Error"}
         => batch_log[i].cause[1] # "Topic Completion"
  /\ LET first == extracted_data.topic_completion[1]
         second == extracted_data.topic_completion[2]
         blank == {r \in topic_completion_table : r.teacher = teacher.id /\ r.tema_number = ""}
     IN /\ first.tema_number = "" /\ second.tema_number = ""
        /\ first.periodo = second.periodo /\ first.paralelo = second.paralelo
        /\ first.tema_title = "Intro" /\ second.tema_title = "Repaso"
        /\ first.completion_date # second.completion_date
        /\ Cardinality(blank) = 1
        /\ \A r \in blank : /\ r.tema_title = "Repaso"
                            /\ r.completion_date = second.completion_date
                            /\ r.paralelo = second.paralelo

\* The worksheet at place k is the one of the example: the spreadsheet is titled for
\* "María López", the header cell is DOCENTE and the name cell is "Lic. Maria Lopez".
AccentExample(k) ==
  /\ k \in DOMAIN spreadsheet.worksheets
  /\ spreadsheet.title = MariaLopezAccented \o "_Avance 2025"
  /\ HeaderIsDocente(spreadsheet.worksheets[k])
  /\ spreadsheet.worksheets[k].cells.E4 = StrV("Lic. Maria Lopez")
AccentExampleIncluded(k) ==
  /\ vpc = "loop" /\ wi > k => spreadsheet.worksheets[k].title \in Range(valid_titles)
  /\ outcome.kind = "return" => spreadsheet.worksheets[k].title \in Range(outcome.value)

\* C14 as stated: for the title name "María López" and the name cell "Lic. Maria
\* Lopez" the two cleaned names are equal, the score is 100 and the worksheet is
\* among the accepted ones.
C14_NormalizedNamesEqual ==
  \A k \in DOMAIN spreadsheet.worksheets :
    AccentExample(k) =>
      /\ vpc = "loop" /\ wi = k =>
           /\ clean_name_cell = clean_name_title
           /\ token_set_ratio(clean_name_cell, clean_name_title) = 100
      /\ AccentExampleIncluded(k)

\* C14: for the title name "María López" and the name cell "Lic. Maria Lopez" the
\* cleaned names are "maría lópez" and "maria lopez", which differ in the
\* accented letters; the score is 90, and the worksheet is among the accepted
\* ones at threshold 80.
C14_AccentsKeptScore90 ==
  \A k \in DOMAIN spreadsheet.worksheets :
    AccentExample(k) =>
      /\ vpc = "loop" /\ wi = k =>
           /\ clean_name_title = maria_lopez_accented
           /\ clean_name_cell = "maria lopez"
           /\ token_set_ratio(clean_name_cell, clean_name_title) = 90
           /\ similarity_threshold = 80
      /\ AccentExampleIncluded(k)

\* The call returned the title of the worksheet of the example, the second of two.
C14_Witness ==
  /\ AccentExample(2)
  /\ outcome.kind = "return"
  /\ spreadsheet.worksheets[2].title \in Range(outcome.value)

\* The text has a title of the fixed list as a whole word; it has a run of two or
\* more whitespace characters.
HasTitleWord(cs) ==
  \E i \in 1..Len(cs) :
    TitleMatches(cs, i, ShortTitles) # {} \/ TitleMatches(cs, i, LongTitles) # {}
HasSpaceRun(cs) ==
  \E i \in 1..(Len(cs) - 1) : cs[i] \in WhiteSpace /\ cs[i + 1] \in WhiteSpace

\* C15: preprocess_name gives a text for every value, the empty text for a value
\* that is no text; the text it gives has no title of the fixed list as a whole
\* word and no run of two or more whitespace characters; and applied to what it
\* gave, it gives the same again.
C15_NormalizeIdempotentTotal ==
  /\ [](fn = "preprocess_name" /\ applications >= 1 =>
          /\ result.tag = "str"
          /\ ~HasTitleWord(Chars(result.s))
          /\ ~HasSpaceRun(Chars(result.s))
          /\ argument.tag # "str" => result.s = "")
  /\ [][fn = "preprocess_name" /\ applications' = 2 => result' = result]_vars

\* A name with a title, a tab and a space was cleaned to "ana", and cleaning "ana"
\* gave "ana" again.
C15_Witness ==
  /\ fn = "preprocess_name"
  /\ applications = 2
  /\ argument = StrV("Lic\t Ana")
  /\ result = StrV("ana")

\* C19: parse_percentage and parse_date never raise: called with any value, each
\* returns a value of its type or the absent marker.
C19_CoercersNeverRaise ==
  fn \in {"parse_percentage", "parse_date"} /\ applications = 1 =>
    /\ result.tag # "raised"
    /\ result.tag \in {"none", IF fn = "parse_percentage" THEN "float" ELSE "date"}

\* A call of extract enters its loop: the step from "idle" to "rows".
CallStarts == pc = "idle" /\ pc' = "rows"
\* The two carried variables at row k, as the rows above k of this call decide them.
FlagAt(k) == k > 1 /\ IsHeaderRow(df[k - 1])

\* C21: every call of extract enters its loop with current_periodo = 0, the flag
\* false and the two lists empty, whatever the call before left behind; inside the
\* loop the two carried variables are decided by the rows of this call above the
\* row at hand; and a later call on the worksheet ends with the lists the first
\* call returned.
C21_NoPeriodLeak ==
  /\ [][CallStarts =>
          /\ current_periodo' = 0
          /\ expect_period_progress_next' = FALSE
          /\ results' = EmptyResults
          /\ df' = GetAsDf(worksheet.values)]_vars
  /\ [](pc = "rows" =>
          /\ current_periodo = PeriodAt(index)
          /\ expect_period_progress_next = FlagAt(index))
  /\ [](\A i \in DOMAIN returns :
          returns[i].fetched /\ pc = "rows" /\ index > Len(df) =>
            results = returns[i].value)

\* The second call is at its first row, a row with a topic title and a date, with
\* no period and the flag down, after a first call that ended on a header row of
\* period 1 or more: the first call left a period and a raised flag behind.
C21_Witness ==
  /\ Len(returns) = 1 /\ returns[1].fetched
  /\ pc = "rows" /\ index = 1 /\ Len(df) >= 2
  /\ IsHeaderRow(df[Len(df)]) /\ HeaderNumber(df[Len(df)]) >= 1
  /\ ~IsHeaderRow(df[1])
  /\ TemaTitle(df[1]) # "" /\ DatedSections(df[1]) # {}
  /\ current_periodo = 0 /\ ~expect_period_progress_next

\* The row at k comes under a header numbered 0: the nearest header above it is one.
UnderZeroHeader(k) == HeadersAbove(k) # {} /\ PeriodAt(k) = 0
\* The row has a cell that reads as a percentage in O..R; it has a title in column
\* E and a cell that reads as a date in O..R.
HasPercentage(row_values) ==
  \E j \in DOMAIN paralelos : parse_percentage(StrV(CellText(row_values, 13 + j))) # NoneV
HasDatedTopic(row_values) == TemaTitle(row_values) # "" /\ DatedSections(row_values) # {}

\* C22: a header row whose numeral is 0 sets current_periodo to 0 and raises the
\* flag, whatever the period was; the row after it, if no header, is handled as the
\* progress row and appends nothing; and every row whose nearest header above is
\* numbered 0 appends no record of either kind and is never handled as a topic row
\* (stated of the row the loop has just handled, which is every row in its turn).
C22_ZeroHeaderSilences ==
  /\ [][(InLoop /\ IsHeaderRow(df[index]) /\ HeaderNumber(df[index]) = 0) =>
          /\ current_periodo' = 0
          /\ expect_period_progress_next' = TRUE
          /\ results' = results]_vars
  /\ [](pc = "rows" /\ current_periodo # 0 => ~UnderZeroHeader(index))
  /\ [](\A k \in {Len(emit_log)} \ {0} :
          (pc = "rows" /\ ~IsHeaderRow(df[k]) /\ UnderZeroHeader(k)) =>
            /\ emit_log[k].period_progress = <<>>
            /\ emit_log[k].topic_completion = <<>>
            /\ emit_log[k].archetype = IF FollowsHeader(k) THEN "progress" ELSE "other")

\* The loop has read a header numbered 0, then a row with a percentage, then a row
\* with a topic title and a date, and has appended nothing.
C22_Witness ==
  /\ pc = "rows" /\ Len(df) = 3 /\ Len(emit_log) = 3
  /\ IsHeaderRow(df[1]) /\ HeaderNumber(df[1]) = 0
  /\ ~IsHeaderRow(df[2]) /\ HasPercentage(df[2])
  /\ ~IsHeaderRow(df[3]) /\ HasDatedTopic(df[3])
  /\ emit_log[2].archetype = "progress" /\ emit_log[3].archetype = "other"
  /\ results = EmptyResults

\* The run is at a record of one of the two record loops.
AtRecord == InPeriodLoop \/ InTopicLoop
IsRecordError(e) == e.kind \in {"Lookup Error", "DB Error"}
\* A step that writes an error line of a record.
RecordFails ==
  /\ Len(batch_log') = Len(batch_log) + 1
  /\ IsRecordError(batch_log'[Len(batch_log')])
\* The store: the two tables the command writes.
Store == <<period_progress_table, topic_completion_table>>

\* C23, the steps: an error line of a record is written only at a record; a record
\* whose lookup fails gets no other step than that; the step leaves both tables as
\* they were and goes to the next record of the same list of the same worksheet;
\* every step inside a record loop moves on by one record; and the period loop is
\* left only after its last record, for the first topic record, the topic loop only
\* after its last record, for the next worksheet.
C23_RecordSteps ==
  [][ /\ RecordFails =>
           /\ AtRecord
           /\ Store' = Store
           /\ record_index' = record_index + 1
           /\ <<bpc, extracted_data, title_index, teacher_index>>'
                = <<bpc, extracted_data, title_index, teacher_index>>
      /\ (AtRecord /\ Lookup(record, year).err # "none") => RecordFails
      /\ (bpc \in {"period", "topic"} /\ bpc' = bpc) =>
           AtRecord /\ record_index' = record_index + 1
      /\ (bpc = "period" /\ bpc' # bpc) =>
           /\ record_index = Len(extracted_data.period_progress) + 1
           /\ bpc' = "topic" /\ record_index' = 1
           /\ extracted_data' = extracted_data
      /\ (bpc = "topic" /\ bpc' # bpc) =>
           /\ record_index = Len(extracted_data.topic_completion) + 1
           /\ bpc' = "worksheet" /\ title_index' = title_index + 1
    ]_vars
\* C23, the progress: a run that is inside the record loops of a worksheet comes to
\* the end of the topic loop of that worksheet.
C23_RecordLoopsEnd ==
  (bpc \in {"period", "topic"})
    ~> (bpc = "topic" /\ record_index = Len(extracted_data.topic_completion) + 1)

\* C23: when a lookup of a record fails, or its upsert fails, the store is left
\* unchanged for that record and every remaining record of the worksheet, of both
\* kinds, is still processed.
C23_RecordErrorIsLocal == C23_RecordSteps /\ C23_RecordLoopsEnd

\* The topic loop of a worksheet is over after the first period record failed its
\* periodo lookup, the second was stored, the third failed its lookup, the first
\* topic record failed its upsert and the second was stored.
C23_Witness ==
  /\ bpc = "topic"
  /\ Len(extracted_data.period_progress) = 3
  /\ record_index = Len(extracted_data.topic_completion) + 1
  /\ \E i, j, k \in DOMAIN batch_log :
       /\ i < j /\ j < k
       /\ \A e \in {batch_log[i], batch_log[j], batch_log[k]} :
            IsRecordError(e) /\ e.teacher = teacher.id /\ e.title = worksheet_title
       /\ batch_log[i].cause = <<"Period Progress", 1, "MultipleObjectsReturned">>
       /\ batch_log[j].cause = <<"Period Progress", 3, "DoesNotExist">>
       /\ batch_log[k].cause = <<"Topic Completion", 1, "DatabaseError">>
  /\ \E r \in period_progress_table :
       /\ r.teacher = teacher.id
       /\ r.progress_percentage = extracted_data.period_progress[2].progress_percentage
  /\ \E r \in topic_completion_table :
       r.teacher = teacher.id /\ r.tema_title = extracted_data.topic_completion[2].tema_title

\* A step that starts a run of the command; the lines of the log that stand for a
\* call into the spreadsheet client or for a teacher or worksheet the run came to.
RunStarts == CanStart /\ runs' = runs + 1
IsAccessOrProcessing(e) ==
  e.kind \in {"authorize", "open_by_key", "Processing teacher", "Processing worksheet"}
\* A step that takes the branch of lines 44-46 for the teacher at hand.
NoWorksheetsStep ==
  /\ InTeacherLoop
  /\ batch_log' # <<>>
  /\ batch_log'[Len(batch_log')].kind = "No valid worksheets"
  /\ batch_log'[Len(batch_log')].teacher = teacher.id

\* C24: a run started with no active academic year, or with more than one, returns
\* at once: it comes to no teacher, makes no call into the spreadsheet client and
\* leaves both tables as they were, and nothing of the run follows; a teacher for
\* whom validation returns no worksheet gets no store write, the run going to the
\* next teacher; and the store is written only at a record of a worksheet of a
\* teacher who has valid worksheets, in a run that found its one active year.
C24_NoYearNoWorksheetsNoWrite ==
  /\ [][ /\ (RunStarts /\ current_academic_year.err # "none") =>
              /\ bpc' = "returned"
              /\ Store' = Store
              /\ attempted' = <<>>
              /\ \A i \in DOMAIN batch_log' : ~IsAccessOrProcessing(batch_log'[i])
         /\ (bpc = "returned" /\ bpc' # bpc) => RunStarts
         /\ (bpc = "returned" /\ ~RunStarts) => <<Store, attempted, batch_log>>'
                                                  = <<Store, attempted, batch_log>>
         /\ NoWorksheetsStep =>
              /\ Store' = Store
              /\ teacher_index' = teacher_index + 1
              /\ bpc' = bpc
         /\ Store' # Store =>
              /\ AtRecord
              /\ current_academic_year.err = "none"
              /\ teacher_titles # <<>>
       ]_vars
  /\ [](bpc = "returned" =>
          /\ attempted = <<>>
          /\ \A i \in DOMAIN batch_log : ~IsAccessOrProcessing(batch_log[i]))

\* A second run has returned for want of one active year, with active teachers to
\* process and with the rows a first run stored still in both tables.
C24_Witness ==
  /\ bpc = "returned" /\ runs = 2
  /\ current_academic_year.err # "none"
  /\ active_teachers # <<>>
  /\ attempted = <<>>
  /\ period_progress_table # {} /\ topic_completion_table # {}

====
